---- MODULE Spec2Model ----
(***************************************************************************)
(* Model of the food-scale-detector backend: the sequential session engine *)
(* (SessionService over a keyed store with read-modify-write operations),  *)
(* the weight-correction route, and the OCR retry ladder of OCRService.     *)
(*                                                                         *)
(* Numbers.  Weights are JavaScript numbers in grams.  The model keeps them *)
(* as integers counting 1/10000 g, the resolution of the conversion         *)
(* factors 28.3495 and 453.592, so every weight used here is represented    *)
(* exactly.  Nutrition values are integers counting 1/100 of their unit.    *)
(***************************************************************************)
EXTENDS Integers, Sequences, FiniteSets, TLC

VARIABLES
    store,       \* the external keyed store: sessionId -> stored session or NULL
    expires,     \* the external keyed store: the time at which each key expires
    now,         \* the wall clock read by new Date() (the specifications below
                 \* run within one clock reading)
    lastResult,  \* what the most recent completed call returned to its caller
    pc,          \* concurrent calls: position of each in-flight call
    local,       \* concurrent calls: the locals of each in-flight call
    ocr          \* the readScaleWeight call: its loop state, its result and the
                 \* history of its iterations (log)

vars == <<store, expires, now, lastResult, pc, local, ocr>>

-----------------------------------------------------------------------------
(* Representation *)

\* units of the integer weight representation per gram
UnitsPerGram == 10 * 1000

G(grams) == grams * UnitsPerGram

NULL == [null |-> TRUE]

\* "s1" is the id createSession hands out; "unknown" is an id no createSession
\* ever returned (the 'non-existent-session' of the tests)
SessionIds == {"s1", "unknown"}
FreshIds == {"s1"}

\* the id of the session POST /upload creates before it looks at the request
UploadIds == {"s2"}

\* bound of the model: the longest ledger an addIngredient call still extends
MaxComponents == 2

-----------------------------------------------------------------------------
(* Arithmetic helpers: Math.round on the fixed-point representation *)

\* Math.round(weightGrams * c / 100000), c an integer coefficient
RoundWeightTimes(w, c) ==
    LET q == w \div UnitsPerGram
        r == w % UnitsPerGram
    IN  (q * c + (r * c + 500000000) \div UnitsPerGram) \div 100000

\* Math.round(v * (weightGrams / 100) * 100) / 100 for v counted in 1/100:
\* the result counted in 1/100
ScalePer100g(v, w) ==
    LET q == w \div UnitsPerGram
        r == w % UnitsPerGram
    IN  (q * v + (r * v + 500000) \div UnitsPerGram) \div 100

RECURSIVE SumWeights(_)
\* components.reduce((sum, component) => sum + component.weight, 0)
SumWeights(components) ==
    IF components = <<>> THEN 0
    ELSE SumWeights(SubSeq(components, 1, Len(components) - 1))
         + components[Len(components)].weight

-----------------------------------------------------------------------------
(* JavaScript numbers as they are: IEEE 754 doubles.  A number of magnitude  *)
(* 1 or more is a whole multiple of 2^-52 with at most 53 significant bits.  *)
(* A magnitude is kept as that multiple, written in binary, lowest bit       *)
(* first, without leading zeros; + and - compute the exact result and round  *)
(* it to 53 significant bits, ties to even.  No value here is large enough   *)
(* to overflow, and no exact result is finer than 2^-52.                     *)

SignificandBits == 53
FractionBits == 52

\* the bits of n, lowest first, n < 2^width
RECURSIVE BitsOf(_, _)
BitsOf(n, width) ==
    IF width = 0 THEN <<>> ELSE <<n % 2>> \o BitsOf(n \div 2, width - 1)

\* without leading zeros (the highest bits come last)
RECURSIVE Trim(_)
Trim(bits) ==
    IF bits = <<>> THEN <<>>
    ELSE IF bits[Len(bits)] = 0 THEN Trim(SubSeq(bits, 1, Len(bits) - 1))
    ELSE bits

Zeros(k) == [i \in 1..k |-> 0]

\* exact a + b + carry on magnitudes
RECURSIVE AddBits(_, _, _)
AddBits(a, b, carry) ==
    IF a = <<>> /\ b = <<>>
    THEN (IF carry = 1 THEN <<1>> ELSE <<>>)
    ELSE LET x == IF a = <<>> THEN 0 ELSE Head(a)
             y == IF b = <<>> THEN 0 ELSE Head(b)
             sum == x + y + carry
         IN  <<sum % 2>> \o AddBits(IF a = <<>> THEN <<>> ELSE Tail(a),
                                    IF b = <<>> THEN <<>> ELSE Tail(b),
                                    sum \div 2)

\* exact a - b - borrow on magnitudes, a >= b (leading zeros not yet removed)
RECURSIVE SubBits(_, _, _)
SubBits(a, b, borrow) ==
    IF a = <<>> THEN <<>>
    ELSE LET y == IF b = <<>> THEN 0 ELSE Head(b)
             diff == Head(a) - y - borrow
         IN  <<diff % 2>> \o SubBits(Tail(a), IF b = <<>> THEN <<>> ELSE Tail(b),
                                     IF diff < 0 THEN 1 ELSE 0)

\* a < b on magnitudes without leading zeros
RECURSIVE LessBits(_, _)
LessBits(a, b) ==
    IF Len(a) # Len(b) THEN Len(a) < Len(b)
    ELSE IF a = <<>> THEN FALSE
    ELSE IF a[Len(a)] # b[Len(b)] THEN a[Len(a)] < b[Len(b)]
    ELSE LessBits(SubSeq(a, 1, Len(a) - 1), SubSeq(b, 1, Len(b) - 1))

\* the exact magnitude rounded to SignificandBits significant bits, ties to
\* even
RoundToDouble(bits) ==
    IF Len(bits) <= SignificandBits THEN bits
    ELSE LET k == Len(bits) - SignificandBits
             kept == SubSeq(bits, k + 1, Len(bits))
             half == bits[k] = 1
             sticky == \E i \in 1..(k - 1) : bits[i] = 1
             up == half /\ (sticky \/ kept[1] = 1)
         IN  Zeros(k) \o (IF up THEN AddBits(kept, <<1>>, 0) ELSE kept)

\* a number: its sign and its magnitude
Number(neg, mag) == [neg |-> neg /\ mag # <<>>, mag |-> mag]

\* the double whose value is the sum of limbs[i] * 2^(16 (i - 1)), times 2^-52
RECURSIVE LimbBits(_)
LimbBits(limbs) ==
    IF limbs = <<>> THEN <<>> ELSE BitsOf(Head(limbs), 16) \o LimbBits(Tail(limbs))

Double(limbs) == Number(FALSE, Trim(LimbBits(limbs)))

\* a + b for a, b >= 0
NumberAdd(a, b) == Number(FALSE, RoundToDouble(AddBits(a.mag, b.mag, 0)))

\* a - b as a real number, a, b >= 0
ExactDifference(a, b) ==
    IF LessBits(a.mag, b.mag)
    THEN Number(TRUE, Trim(SubBits(b.mag, a.mag, 0)))
    ELSE Number(FALSE, Trim(SubBits(a.mag, b.mag, 0)))

\* a - b for a, b >= 0
NumberSubtract(a, b) ==
    Number(ExactDifference(a, b).neg, RoundToDouble(ExactDifference(a, b).mag))

\* a < b for numbers of either sign
NumberLess(a, b) ==
    IF a.neg /\ ~b.neg THEN TRUE
    ELSE IF ~a.neg /\ b.neg THEN FALSE
    ELSE IF a.neg THEN LessBits(b.mag, a.mag)
    ELSE LessBits(a.mag, b.mag)

NumberZero == Number(FALSE, <<>>)

-----------------------------------------------------------------------------
(* Unit conversion (utils/conversions) *)

GRAMS_PER_OUNCE == 283495     \* 28.3495 g, counted in 1/10000 g
GRAMS_PER_POUND == 4535920    \* 453.592 g, counted in 1/10000 g

Units == {"g", "oz", "lb"}

\* weight * factor / UnitsPerGram, rounded to nearest, without leaving 32 bits
TimesFactor(weight, factor) ==
    LET fq == factor \div UnitsPerGram
        fr == factor % UnitsPerGram
        wq == weight \div UnitsPerGram
        wr == weight % UnitsPerGram
    IN  weight * fq + wq * fr + (wr * fr + UnitsPerGram \div 2) \div UnitsPerGram

convertToGrams(weight, unit) ==
    CASE unit = "g"  -> weight
      [] unit = "oz" -> TimesFactor(weight, GRAMS_PER_OUNCE)
      [] unit = "lb" -> TimesFactor(weight, GRAMS_PER_POUND)

RECURSIVE GCD(_, _)
GCD(a, b) == IF b = 0 THEN a ELSE GCD(b, a % b)

\* weight / factor * UnitsPerGram, rounded to nearest, without leaving 32 bits
DividedByFactor(weight, factor) ==
    LET k == GCD(UnitsPerGram, factor)
        num == UnitsPerGram \div k
        den == factor \div k
    IN  (weight \div factor) * UnitsPerGram
        + ((weight % factor) * num + den \div 2) \div den

\* faulty variant: pounds divided by the grams of an ounce
convertFromGramsPoundsAsOunces(weightInGrams, targetUnit) ==
    CASE targetUnit = "g"  -> weightInGrams
      [] targetUnit = "oz" -> DividedByFactor(weightInGrams, GRAMS_PER_OUNCE)
      [] targetUnit = "lb" -> DividedByFactor(weightInGrams, GRAMS_PER_OUNCE)

convertFromGrams(weightInGrams, targetUnit) ==
    CASE targetUnit = "g"  -> weightInGrams
      [] targetUnit = "oz" -> DividedByFactor(weightInGrams, GRAMS_PER_OUNCE)
      [] targetUnit = "lb" -> DividedByFactor(weightInGrams, GRAMS_PER_POUND)

convertWeight(weight, fromUnit, toUnit) ==
    IF fromUnit = toUnit THEN weight
    ELSE convertFromGrams(convertToGrams(weight, fromUnit), toUnit)

-----------------------------------------------------------------------------
(* Nutrition vectors *)

NutritionFields ==
    {"calories", "protein", "carbohydrates", "fat", "fiber", "sodium",
     "sugar", "saturatedFat", "cholesterol", "potassium"}

\* POST /confirm: the mock nutrition of a confirmed component, every field a
\* Math.round of weight times a per-gram coefficient (here times 100000)
ConfirmCoefficient ==
    [calories |-> 52000, protein |-> 300, carbohydrates |-> 14000, fat |-> 200,
     fiber |-> 2400, sodium |-> 1, sugar |-> 10400, saturatedFat |-> 0,
     cholesterol |-> 0, potassium |-> 107000]

ConfirmNutrition(weight) ==
    [f \in NutritionFields |-> 100 * RoundWeightTimes(weight, ConfirmCoefficient[f])]

\* what the nutrition provider holds per 100 g of each food (counted in 1/100)
ProviderPer100g(food) ==
    IF food = "apple"
    THEN [calories |-> 5200, protein |-> 30, carbohydrates |-> 1400, fat |-> 20,
          fiber |-> 240, sodium |-> 100, sugar |-> 1040, saturatedFat |-> 0,
          cholesterol |-> 0, potassium |-> 10700]
    ELSE [calories |-> 8900, protein |-> 110, carbohydrates |-> 2280, fat |-> 30,
          fiber |-> 260, sodium |-> 100, sugar |-> 1220, saturatedFat |-> 10,
          cholesterol |-> 0, potassium |-> 35800]

\* NutritionService.calculateNutritionForWeight
calculateNutritionForWeight(food, weightInGrams) ==
    [f \in NutritionFields |-> ScalePer100g(ProviderPer100g(food)[f], weightInGrams)]

FallbackBase ==
    [calories |-> 15000, protein |-> 800, carbohydrates |-> 2000, fat |-> 500,
     fiber |-> 300, sodium |-> 20000, sugar |-> 500, saturatedFat |-> 150,
     cholesterol |-> 1000, potassium |-> 20000]

\* NutritionService.getFallbackNutritionData: calories rounded to a whole
\* number, every other field to two decimals
getFallbackNutritionData(weightInGrams) ==
    [f \in NutritionFields |->
        IF f = "calories"
        THEN 100 * RoundWeightTimes(weightInGrams, 150000)
        ELSE ScalePer100g(FallbackBase[f], weightInGrams)]

\* NutritionService.getNutritionData: the provider's answer, or the fallback
\* when the provider call fails
getNutritionData(food, weightInGrams, providerOk) ==
    IF providerOk THEN calculateNutritionForWeight(food, weightInGrams)
    ELSE getFallbackNutritionData(weightInGrams)

-----------------------------------------------------------------------------
(* Sessions and the store *)

\* a MealComponent
Component(food, weight, nutrition, addedAt) ==
    [food |-> food, weight |-> weight, nutrition |-> nutrition, addedAt |-> addedAt]

\* createSession's empty session
EmptySession(sessionId, t) ==
    [id |-> sessionId, components |-> <<>>, totalWeight |-> 0,
     previousWeight |-> 0, createdAt |-> t, lastUpdated |-> t]

\* JSON.stringify: a Date becomes its ISO string, everything else is kept
JSONStringify(session) ==
    [id |-> session.id,
     components |-> [i \in 1..Len(session.components) |->
                        [session.components[i] EXCEPT
                            !.addedAt = [iso |-> session.components[i].addedAt]]],
     totalWeight |-> session.totalWeight,
     previousWeight |-> session.previousWeight,
     createdAt |-> [iso |-> session.createdAt],
     lastUpdated |-> [iso |-> session.lastUpdated]]

\* getSession: client.get, JSON.parse and the revival of the three dates
getSession(st, sessionId) ==
    LET sessionData == st[sessionId]
    IN  IF sessionData = NULL THEN NULL
        ELSE [id |-> sessionData.id,
              components |-> [i \in 1..Len(sessionData.components) |->
                                 [sessionData.components[i] EXCEPT
                                     !.addedAt = sessionData.components[i].addedAt.iso]],
              totalWeight |-> sessionData.totalWeight,
              previousWeight |-> sessionData.previousWeight,
              createdAt |-> sessionData.createdAt.iso,
              lastUpdated |-> sessionData.lastUpdated.iso]

\* client.setEx(sessionId, 3600, JSON.stringify(session)): the value it stores
setEx(st, sessionId, session) ==
    [st EXCEPT ![sessionId] = JSONStringify(session)]

\* the time to live every setEx of SessionService passes, in seconds
SESSION_TTL == 3600

\* client.setEx(key, seconds, value) and client.expire(key, seconds): the key
\* expires seconds after the time t of the command
setExpiry(ex, sessionId, seconds, t) ==
    [ex EXCEPT ![sessionId] = t + seconds]

\* faulty variant: addIngredient storing the new component's weight as the total
AddIngredientTotalNotAccumulated(session, ingredient, t) ==
    [session EXCEPT
        !.components = Append(session.components, ingredient),
        !.totalWeight = ingredient.weight,
        !.previousWeight = session.totalWeight,
        !.lastUpdated = t]

\* faulty variant: addIngredient putting the new component first
AddIngredientPrepending(session, ingredient, t) ==
    [session EXCEPT
        !.components = <<ingredient>> \o session.components,
        !.totalWeight = ingredient.weight + session.totalWeight,
        !.previousWeight = session.totalWeight,
        !.lastUpdated = t]

\* addIngredient's updatedSession
AddIngredientUpdated(session, ingredient, t) ==
    [session EXCEPT
        !.components = Append(session.components, ingredient),
        !.totalWeight = ingredient.weight + session.totalWeight,
        !.previousWeight = session.totalWeight,
        !.lastUpdated = t]

\* faulty variant: a correction handing updateSession the two fields it
\* changed, the others being taken from the session updateSession reads
UpdateSessionUpdatedFromChangedFields(existingSession, updates, t) ==
    [f \in DOMAIN existingSession |->
        IF f = "lastUpdated" THEN t
        ELSE IF f \in {"components", "totalWeight"} /\ f \in DOMAIN updates
             THEN updates[f] ELSE existingSession[f]]

\* updateSession's updatedSession: {...existingSession, ...updates, lastUpdated}
\* (updates is a whole session in the one call the program makes)
UpdateSessionUpdated(existingSession, updates, t) ==
    [f \in DOMAIN existingSession |->
        IF f = "lastUpdated" THEN t
        ELSE IF f \in DOMAIN updates THEN updates[f] ELSE existingSession[f]]

\* faulty variant: a correction that moves previousWeight like an addition does
CorrectedSessionMovingPrevious(session, weightInGrams, updatedNutrition, t) ==
    LET n == Len(session.components)
        updatedIngredient ==
            [session.components[n] EXCEPT !.weight = weightInGrams,
                                          !.nutrition = updatedNutrition]
        updatedComponents ==
            Append(SubSeq(session.components, 1, n - 1), updatedIngredient)
    IN  [session EXCEPT
            !.components = updatedComponents,
            !.totalWeight = SumWeights(updatedComponents),
            !.previousWeight = session.totalWeight,
            !.lastUpdated = t]

\* faulty variant: a correction that stores the corrected component as a new
\* one, added at the time of the correction
CorrectedSessionRestampingLast(session, weightInGrams, updatedNutrition, t) ==
    LET n == Len(session.components)
        updatedIngredient ==
            Component(session.components[n].food, weightInGrams, updatedNutrition, t)
        updatedComponents ==
            Append(SubSeq(session.components, 1, n - 1), updatedIngredient)
    IN  [session EXCEPT
            !.components = updatedComponents,
            !.totalWeight = SumWeights(updatedComponents),
            !.lastUpdated = t]

\* PUT /session/:sessionId/weight: the session with its last component's
\* weight and nutrition replaced and totalWeight recomputed
CorrectedSession(session, weightInGrams, updatedNutrition, t) ==
    LET n == Len(session.components)
        lastIngredient == session.components[n]
        updatedIngredient ==
            [lastIngredient EXCEPT !.weight = weightInGrams,
                                   !.nutrition = updatedNutrition]
        updatedComponents ==
            Append(SubSeq(session.components, 1, n - 1), updatedIngredient)
    IN  [session EXCEPT
            !.components = updatedComponents,
            !.totalWeight = SumWeights(updatedComponents),
            !.lastUpdated = t]

\* faulty variant: the check made against the last component instead of the others
CorrectionRejectedAgainstLast(session, weightInGrams) ==
    /\ Len(session.components) > 1
    /\ weightInGrams <= session.components[Len(session.components)].weight

\* PUT /session/:sessionId/weight: the check against the previous total
CorrectionRejected(session, weightInGrams) ==
    LET lastIngredient == session.components[Len(session.components)]
        previousTotalWeight == session.totalWeight - lastIngredient.weight
    IN  /\ Len(session.components) > 1
        /\ weightInGrams <= previousTotalWeight

-----------------------------------------------------------------------------
(* calculateWeightDifference: the pre-check of a new total scale reading *)

MIN_DIFFERENCE == 10000       \* 1 g
MAX_DIFFERENCE == 50000000    \* 5000 g

ERR_NOT_GREATER == "must be greater than previous weight"
ERR_TOO_LARGE == "increase seems too large, verify reading"
ERR_TOO_SMALL == "increase too small, minimum addition is 1g"
ERR_NO_SESSION == "session not found"

\* String.includes between the error messages and the phrases looked for
ErrorContains(error, phrase) ==
    <<error, phrase>> \in
        {<<ERR_NOT_GREATER, "must be greater than previous weight">>,
         <<ERR_TOO_LARGE, "seems too large">>,
         <<ERR_TOO_SMALL, "too small">>}

\* faulty variant: the minimum checked before the sign
WeightDifferenceMinimumFirst(session, newTotalWeight) ==
    IF session = NULL
    THEN [difference |-> 0, previousWeight |-> 0, isValid |-> FALSE,
          error |-> ERR_NO_SESSION]
    ELSE LET difference == newTotalWeight - session.totalWeight
             Reject(error) ==
                 [difference |-> difference, previousWeight |-> session.totalWeight,
                  isValid |-> FALSE, error |-> error]
         IN  IF difference < MIN_DIFFERENCE THEN Reject(ERR_TOO_SMALL)
             ELSE IF difference > MAX_DIFFERENCE THEN Reject(ERR_TOO_LARGE)
             ELSE [difference |-> difference, previousWeight |-> session.totalWeight,
                   isValid |-> TRUE, error |-> ""]

\* faulty variant: the minimum taken as exclusive
WeightDifferenceMinimumExclusive(session, newTotalWeight) ==
    IF session = NULL
    THEN [difference |-> 0, previousWeight |-> 0, isValid |-> FALSE,
          error |-> ERR_NO_SESSION]
    ELSE LET difference == newTotalWeight - session.totalWeight
             Reject(error) ==
                 [difference |-> difference, previousWeight |-> session.totalWeight,
                  isValid |-> FALSE, error |-> error]
         IN  IF difference <= 0 THEN Reject(ERR_NOT_GREATER)
             ELSE IF difference > MAX_DIFFERENCE THEN Reject(ERR_TOO_LARGE)
             ELSE IF difference <= MIN_DIFFERENCE THEN Reject(ERR_TOO_SMALL)
             ELSE [difference |-> difference, previousWeight |-> session.totalWeight,
                   isValid |-> TRUE, error |-> ""]

WeightDifferenceResult(session, newTotalWeight) ==
    IF session = NULL
    THEN [difference |-> 0, previousWeight |-> 0, isValid |-> FALSE,
          error |-> ERR_NO_SESSION]
    ELSE LET difference == newTotalWeight - session.totalWeight
             previousWeight == session.totalWeight
         IN  IF difference <= 0
             THEN [difference |-> difference, previousWeight |-> previousWeight,
                   isValid |-> FALSE, error |-> ERR_NOT_GREATER]
             ELSE IF difference > MAX_DIFFERENCE
             THEN [difference |-> difference, previousWeight |-> previousWeight,
                   isValid |-> FALSE, error |-> ERR_TOO_LARGE]
             ELSE IF difference < MIN_DIFFERENCE
             THEN [difference |-> difference, previousWeight |-> previousWeight,
                   isValid |-> FALSE, error |-> ERR_TOO_SMALL]
             ELSE [difference |-> difference, previousWeight |-> previousWeight,
                   isValid |-> TRUE, error |-> ""]

-----------------------------------------------------------------------------
(* Meal totals *)

\* NutritionService.calculateMealNutrition: a running total over the
\* ingredients, from the first to the last
RECURSIVE calculateMealNutrition(_)
calculateMealNutrition(ingredients) ==
    IF ingredients = <<>>
    THEN [totalNutrition |-> [f \in NutritionFields |-> 0], totalWeight |-> 0]
    ELSE LET n == Len(ingredients)
             before == calculateMealNutrition(SubSeq(ingredients, 1, n - 1))
         IN  [totalNutrition |->
                  [f \in NutritionFields |->
                      before.totalNutrition[f] + ingredients[n].nutrition[f]],
              totalWeight |-> before.totalWeight + ingredients[n].weight]

\* faulty variant: a summary that reports the last component alone
MealSummaryOfLastComponent(session) ==
    IF session = NULL THEN NULL
    ELSE LET n == Len(session.components)
         IN  [totalNutrition |->
                  IF n = 0 THEN [f \in NutritionFields |-> 0]
                  ELSE session.components[n].nutrition,
              totalWeight |-> session.totalWeight,
              componentCount |-> n]

\* getMealSummary: null without a session, else the totals of its ledger
MealSummary(session) ==
    IF session = NULL THEN NULL
    ELSE [totalNutrition |->
              calculateMealNutrition(session.components).totalNutrition,
          totalWeight |-> session.totalWeight,
          componentCount |-> Len(session.components)]

-----------------------------------------------------------------------------
(* Inputs *)

\* the components handed to addIngredient: 100 g, 0.5 g and 6000 g
IngredientInputs ==
    {<<"apple", G(100)>>, <<"banana", G(1) \div 2>>, <<"banana", G(6000)>>}

\* the differences newTotal - totalWeight tried on calculateWeightDifference
Differences ==
    {0 - G(20), 0, G(1) - 1, G(1), G(1) + 1, G(5000), G(5000) + 1}

\* the bodies sent to PUT /session/:sessionId/weight
CorrectionInputs ==
    {[weight |-> G(120), unit |-> "g"], [weight |-> G(4), unit |-> "oz"],
     [weight |-> G(1) \div 5, unit |-> "lb"],
     [weight |-> 0, unit |-> "g"], [weight |-> G(120), unit |-> "kg"]}

Result(op, sid, arg, status, session, calc) ==
    [op |-> op, sid |-> sid, arg |-> arg, status |-> status,
     session |-> session, calc |-> calc]

-----------------------------------------------------------------------------
(* OCRService: from recognized text to a weight reading *)

MIN_CONFIDENCE_THRESHOLD == 60
HIGH_CONFIDENCE_THRESHOLD == 80

\* readScaleWeight's preprocessingOptions, in their list order
preprocessingOptions ==
    << [enhanceContrast |-> TRUE, sharpen |-> TRUE, denoise |-> TRUE, threshold |-> 128],
       [enhanceContrast |-> TRUE, sharpen |-> FALSE, denoise |-> TRUE, threshold |-> 100],
       [enhanceContrast |-> FALSE, sharpen |-> TRUE, denoise |-> FALSE, threshold |-> 150] >>

\* Recognized text is a sequence of tokens, a number string followed by a
\* (possibly empty) lower-case unit word.  parseFloat on the number strings
\* the recognizer results below contain:
parseFloat(numberStr) ==
    CASE numberStr = "150.5" -> 1505000
      [] numberStr = "2"     -> G(2)
      [] numberStr = "0"     -> 0
      [] numberStr = "20000" -> G(20000)
      [] numberStr = "88"    -> G(88)
      [] numberStr = "0.05"  -> G(1) \div 20

\* String.includes between the word texts and the number strings in use
Includes(wordText, numberStr) ==
    <<wordText, numberStr>> \in
        {<<"150.5", "150.5">>, <<"150.5g", "150.5">>, <<"2", "2">>, <<"20000", "2">>,
         <<"20000", "20000">>, <<"20000", "0">>, <<"150.5", "0">>, <<"150.5g", "0">>,
         <<"88", "88">>, <<"0", "0">>, <<"0.05", "0.05">>, <<"0.05", "0">>}

\* UNIT_MAPPINGS
UNIT_MAPPINGS ==
    [g |-> "g", gram |-> "g", grams |-> "g", oz |-> "oz", ounce |-> "oz",
     ounces |-> "oz", lb |-> "lb", lbs |-> "lb", pound |-> "lb", pounds |-> "lb"]

\* WEIGHT_PATTERNS[0]: the unit group (g|grams?|oz|ounces?|lb|lbs?|pounds?)
\* captures the first alternative that matches where the unit word starts
Capture1(unitWord) ==
    CASE unitWord \in {"g", "gram", "grams"} -> "g"
      [] unitWord = "oz" -> "oz"
      [] unitWord \in {"ounce", "ounces"} -> unitWord
      [] unitWord \in {"lb", "lbs"} -> "lb"
      [] unitWord \in {"pound", "pounds"} -> unitWord
      [] OTHER -> "nomatch"

\* WEIGHT_PATTERNS[1]: the unit group (g|oz|lb)
Capture2(unitWord) ==
    CASE unitWord \in {"g", "gram", "grams"} -> "g"
      [] unitWord = "oz" -> "oz"
      [] unitWord \in {"lb", "lbs"} -> "lb"
      [] OTHER -> "nomatch"

\* the matches of one pattern on the text, in text order: <<numberStr, unitStr>>
\* (unitStr "" when the pattern has no unit group)
RECURSIVE MatchAll(_, _)
MatchAll(text, pattern) ==
    IF text = <<>> THEN <<>>
    ELSE LET token == Head(text)
             unitStr == CASE pattern = 1 -> Capture1(token.unit)
                          [] pattern = 2 -> Capture2(token.unit)
                          [] pattern = 3 -> ""
         IN  (IF unitStr = "nomatch" THEN <<>> ELSE << <<token.num, unitStr>> >>)
             \o MatchAll(Tail(text), pattern)

\* words.find(word => word.text.includes(numberStr) && word.confidence > 0)
RECURSIVE FindMatchingWord(_, _)
FindMatchingWord(words, numberStr) ==
    IF words = <<>> THEN NULL
    ELSE IF Includes(Head(words).text, numberStr) /\ Head(words).confidence > 0
         THEN Head(words)
         ELSE FindMatchingWord(Tail(words), numberStr)

\* faulty variant: the range penalty applied before the unit boost
CandidateConfidencePenaltyFirst(ocrResult, numberStr, unitStr) ==
    LET value == parseFloat(numberStr)
        hasUnit == unitStr # "" /\ unitStr \in DOMAIN UNIT_MAPPINGS
        c0 == ocrResult.confidence
        c1 == IF value > G(10000) \/ value < G(1) \div 10
              THEN (IF c0 - 20 < 0 THEN 0 ELSE c0 - 20) ELSE c0
        c2 == IF hasUnit THEN (IF c1 + 10 > 100 THEN 100 ELSE c1 + 10) ELSE c1
        matchingWord == FindMatchingWord(ocrResult.words, numberStr)
    IN  IF matchingWord = NULL THEN c2
        ELSE (c2 + matchingWord.confidence + 1) \div 2

\* the confidence of one candidate
CandidateConfidence(ocrResult, numberStr, unitStr) ==
    LET value == parseFloat(numberStr)
        hasUnit == unitStr # "" /\ unitStr \in DOMAIN UNIT_MAPPINGS
        c0 == ocrResult.confidence
        c1 == IF hasUnit THEN (IF c0 + 10 > 100 THEN 100 ELSE c0 + 10) ELSE c0
        c2 == IF value > G(10000) \/ value < G(1) \div 10
              THEN (IF c1 - 20 < 0 THEN 0 ELSE c1 - 20) ELSE c1
        matchingWord == FindMatchingWord(ocrResult.words, numberStr)
    IN  IF matchingWord = NULL THEN c2
        ELSE (c2 + matchingWord.confidence + 1) \div 2

\* the candidates of the matches of one pattern
RECURSIVE Candidates(_, _)
Candidates(ocrResult, matches) ==
    IF matches = <<>> THEN <<>>
    ELSE LET numberStr == Head(matches)[1]
             unitStr == Head(matches)[2]
             value == parseFloat(numberStr)
             unit == IF unitStr # "" /\ unitStr \in DOMAIN UNIT_MAPPINGS
                     THEN UNIT_MAPPINGS[unitStr] ELSE "g"
         IN  (IF value <= 0 THEN <<>>
              ELSE << [value |-> value, unit |-> unit,
                       confidence |-> CandidateConfidence(ocrResult, numberStr, unitStr),
                       rawText |-> <<numberStr, unitStr>>] >>)
             \o Candidates(ocrResult, Tail(matches))

\* extractWeightFromText
extractWeightFromText(ocrResult) ==
    Candidates(ocrResult, MatchAll(ocrResult.text, 1))
    \o Candidates(ocrResult, MatchAll(ocrResult.text, 2))
    \o Candidates(ocrResult, MatchAll(ocrResult.text, 3))

\* isReasonableWeight
isReasonableWeight(value, unit) ==
    CASE unit = "g"  -> value >= G(1) /\ value <= G(5000)
      [] unit = "oz" -> value >= G(1) \div 10 /\ value <= G(176)
      [] unit = "lb" -> value >= G(1) \div 100 /\ value <= G(11)
      [] OTHER -> FALSE

\* faulty variant: a comparator that looks at the confidence alone
CompareByConfidenceOnly(a, b) == b.confidence - a.confidence

\* faulty variant: a comparator that puts a reasonable reading first whatever
\* the confidences
CompareReasonableFirst(a, b) ==
    LET aReasonable == isReasonableWeight(a.value, a.unit)
        bReasonable == isReasonableWeight(b.value, b.unit)
    IN  IF aReasonable /\ ~bReasonable THEN 0 - 1
        ELSE IF ~aReasonable /\ bReasonable THEN 1
        ELSE b.confidence - a.confidence

\* selectBestWeight's comparator: negative when a sorts before b
CompareWeights(a, b) ==
    LET diff == a.confidence - b.confidence
        aReasonable == isReasonableWeight(a.value, a.unit)
        bReasonable == isReasonableWeight(b.value, b.unit)
    IN  IF diff > 10 \/ diff < 0 - 10 THEN b.confidence - a.confidence
        ELSE IF aReasonable /\ ~bReasonable THEN 0 - 1
        ELSE IF ~aReasonable /\ bReasonable THEN 1
        ELSE b.confidence - a.confidence

\* Array.prototype.sort as a stable insertion sort: x goes before the first
\* element of the sorted prefix that it sorts strictly before
RECURSIVE InsertSorted(_, _)
InsertSorted(sorted, x) ==
    IF sorted = <<>> THEN <<x>>
    ELSE LET last == sorted[Len(sorted)]
         IN  IF CompareWeights(x, last) < 0
             THEN Append(InsertSorted(SubSeq(sorted, 1, Len(sorted) - 1), x), last)
             ELSE Append(sorted, x)

RECURSIVE SortWeights(_)
SortWeights(weights) ==
    IF weights = <<>> THEN <<>>
    ELSE InsertSorted(SortWeights(SubSeq(weights, 1, Len(weights) - 1)),
                      weights[Len(weights)])

\* selectBestWeight
selectBestWeight(weights) ==
    IF Len(weights) = 0 THEN NULL ELSE SortWeights(weights)[1]

\* the sentinel readings of readScaleWeight
UnreadableReading ==
    [value |-> 0, unit |-> "g", confidence |-> 0,
     rawText |-> <<"Unable to read scale display">>]

OCRErrorReading(message) ==
    [value |-> 0, unit |-> "g", confidence |-> 0,
     rawText |-> <<"OCR Error: ", message>>]

\* the images given to readScaleWeight: a buffer sharp can decode or not
Images == {[decodable |-> TRUE], [decodable |-> FALSE]}

ERR_UNSUPPORTED_IMAGE == "Input buffer contains unsupported image format"
ERR_RECOGNIZER == "Tesseract recognize failed"

\* what the recognizer may return for a preprocessed variant
OCRResults ==
    {[text |-> << [num |-> "150.5", unit |-> "g"] >>, confidence |-> 85,
      words |-> << [text |-> "150.5", confidence |-> 90] >>],
     [text |-> << [num |-> "150.5", unit |-> "g"] >>, confidence |-> 75,
      words |-> <<>>],
     [text |-> << [num |-> "2", unit |-> "lbs"] >>, confidence |-> 62,
      words |-> <<>>],
     [text |-> << [num |-> "88", unit |-> ""] >>, confidence |-> 40,
      words |-> << [text |-> "88", confidence |-> 45] >>],
     [text |-> << [num |-> "88", unit |-> "oz"] >>, confidence |-> 62,
      words |-> <<>>],
     [text |-> <<>>, confidence |-> 70, words |-> <<>>],
     [text |-> << [num |-> "0", unit |-> "g"] >>, confidence |-> 65,
      words |-> << [text |-> "0", confidence |-> 65] >>],
     [text |-> << [num |-> "20000", unit |-> ""], [num |-> "150.5", unit |-> "g"] >>,
      confidence |-> 60,
      words |-> << [text |-> "20000", confidence |-> 0],
                   [text |-> "150.5g", confidence |-> 58] >>]}

-----------------------------------------------------------------------------
(* The operations applied one after another: each handler runs to completion *)

Procs == {"p1", "p2"}

\* createSession
CreateSession(sid) ==
    /\ store[sid] = NULL
    /\ store' = setEx(store, sid, EmptySession(sid, now))
    /\ expires' = setExpiry(expires, sid, SESSION_TTL, now)
    /\ lastResult' = Result("createSession", sid, NULL, "ok", NULL, NULL)
    /\ UNCHANGED <<now, pc, local, ocr>>

\* getSession
GetSession(sid) ==
    /\ lastResult' = Result("getSession", sid, NULL,
                            IF getSession(store, sid) = NULL THEN "null" ELSE "ok",
                            getSession(store, sid), NULL)
    /\ UNCHANGED <<store, expires, now, pc, local, ocr>>

\* faulty variant: addIngredient applying the calculateWeightDifference rules itself
AddIngredientValidating(sid, ingredient) ==
    /\ LET session == getSession(store, sid)
       IN  IF session = NULL
              \/ ingredient.weight < MIN_DIFFERENCE
              \/ ingredient.weight > MAX_DIFFERENCE
           THEN /\ lastResult' = Result("addIngredient", sid, ingredient, "null",
                                        NULL, NULL)
                /\ UNCHANGED <<store, expires>>
           ELSE /\ Len(session.components) < MaxComponents
                /\ LET updatedSession == AddIngredientUpdated(session, ingredient, now)
                   IN  /\ store' = setEx(store, sid, updatedSession)
                       /\ expires' = setExpiry(expires, sid, SESSION_TTL, now)
                       /\ lastResult' = Result("addIngredient", sid, ingredient,
                                               "ok", updatedSession, NULL)
    /\ UNCHANGED <<now, pc, local, ocr>>

\* addIngredient
AddIngredientCall(sid, ingredient) ==
    /\ LET session == getSession(store, sid)
       IN  IF session = NULL
           THEN /\ lastResult' = Result("addIngredient", sid, ingredient, "null",
                                        NULL, NULL)
                /\ UNCHANGED <<store, expires>>
           ELSE LET updatedSession == AddIngredientUpdated(session, ingredient, now)
                IN  /\ store' = setEx(store, sid, updatedSession)
                    /\ expires' = setExpiry(expires, sid, SESSION_TTL, now)
                    /\ lastResult' = Result("addIngredient", sid, ingredient,
                                            "ok", updatedSession, NULL)
    /\ UNCHANGED <<now, pc, local, ocr>>

\* addIngredient, called while the ledger is shorter than MaxComponents
AddIngredient(sid, ingredient) ==
    /\ getSession(store, sid) # NULL =>
           Len(getSession(store, sid).components) < MaxComponents
    /\ AddIngredientCall(sid, ingredient)

\* faulty variant: a pre-check that records the reading it was given
CalculateWeightDifferenceRecording(sid, newTotalWeight) ==
    /\ lastResult' = Result("calculateWeightDifference", sid, newTotalWeight, "ok",
                            NULL,
                            WeightDifferenceResult(getSession(store, sid),
                                                   newTotalWeight))
    /\ store' = setEx(store, sid,
                      IF getSession(store, sid) = NULL
                      THEN EmptySession(sid, now)
                      ELSE [getSession(store, sid) EXCEPT
                               !.previousWeight = newTotalWeight])
    /\ expires' = setExpiry(expires, sid, SESSION_TTL, now)
    /\ UNCHANGED <<now, pc, local, ocr>>

\* calculateWeightDifference
CalculateWeightDifference(sid, newTotalWeight) ==
    /\ lastResult' = Result("calculateWeightDifference", sid, newTotalWeight, "ok",
                            NULL,
                            WeightDifferenceResult(getSession(store, sid),
                                                   newTotalWeight))
    /\ UNCHANGED <<store, expires, now, pc, local, ocr>>

\* faulty variant: updateSession creating the session it does not find
UpdateSessionUpserting(st, sid, updates, t) ==
    setEx(st, sid,
          UpdateSessionUpdated(IF getSession(st, sid) = NULL
                               THEN EmptySession(sid, t) ELSE getSession(st, sid),
                               updates, t))

\* faulty variant: updateSession rewriting the value and keeping the old expiry
UpdateSessionKeepingExpiry(st, ex, sid, t) == ex

\* updateSession: what it stores and what it returns
UpdateSessionStore(st, sid, updates, t) ==
    IF getSession(st, sid) = NULL THEN st
    ELSE setEx(st, sid, UpdateSessionUpdated(getSession(st, sid), updates, t))

UpdateSessionExpires(st, ex, sid, t) ==
    IF getSession(st, sid) = NULL THEN ex
    ELSE setExpiry(ex, sid, SESSION_TTL, t)

UpdateSessionReturn(st, sid, updates, t) ==
    IF getSession(st, sid) = NULL THEN NULL
    ELSE UpdateSessionUpdated(getSession(st, sid), updates, t)

\* PUT /session/:sessionId/weight
CorrectWeight(sid, body, providerOk) ==
    /\ LET session == getSession(store, sid)
           weightInGrams == convertToGrams(body.weight, body.unit)
           Fail(code) ==
               /\ lastResult' = Result("correctWeight", sid, body, code, NULL, NULL)
               /\ UNCHANGED <<store, expires>>
       IN  IF body.weight <= 0 THEN Fail("INVALID_WEIGHT")
           ELSE IF body.unit \notin Units THEN Fail("INVALID_UNIT")
           ELSE IF session = NULL THEN Fail("SESSION_NOT_FOUND")
           ELSE IF Len(session.components) = 0 THEN Fail("NO_INGREDIENTS")
           ELSE IF CorrectionRejected(session, weightInGrams)
                THEN Fail("INVALID_WEIGHT_CORRECTION")
           ELSE LET lastIngredient == session.components[Len(session.components)]
                    updatedNutrition ==
                        getNutritionData(lastIngredient.food, weightInGrams, providerOk)
                    updatedSession ==
                        CorrectedSession(session, weightInGrams, updatedNutrition, now)
                IN  /\ store' = UpdateSessionStore(store, sid, updatedSession, now)
                    /\ expires' = UpdateSessionExpires(store, expires, sid, now)
                    /\ lastResult' =
                         Result("correctWeight", sid, body, "ok",
                                UpdateSessionReturn(store, sid, updatedSession, now),
                                NULL)
    /\ UNCHANGED <<now, pc, local, ocr>>

\* deleteSession
DeleteSession(sid) ==
    /\ store' = [store EXCEPT ![sid] = NULL]
    /\ expires' = [expires EXCEPT ![sid] = 0]
    /\ lastResult' = Result("deleteSession", sid, NULL,
                            IF store[sid] = NULL THEN "false" ELSE "true", NULL, NULL)
    /\ UNCHANGED <<now, pc, local, ocr>>

\* getMealSummary
GetMealSummary(sid) ==
    /\ LET session == getSession(store, sid)
       IN  lastResult' = Result("getMealSummary", sid, NULL,
                                IF session = NULL THEN "null" ELSE "ok",
                                session, MealSummary(session))
    /\ UNCHANGED <<store, expires, now, pc, local, ocr>>

Init ==
    /\ store = [sid \in SessionIds \cup UploadIds |-> NULL]
    /\ expires = [sid \in SessionIds \cup UploadIds |-> 0]
    /\ now = 0
    /\ lastResult = Result("none", "unknown", NULL, "ok", NULL, NULL)
    /\ pc = [p \in Procs |-> "idle"]
    /\ local = [p \in Procs |-> NULL]
    /\ ocr = [state |-> "NotStarted", image |-> NULL, attempt |-> 0,
              bestWeight |-> NULL, bestConfidence |-> 0, log |-> <<>>,
              result |-> NULL]

Next ==
    \/ \E sid \in FreshIds : CreateSession(sid)
    \/ \E sid \in SessionIds : GetSession(sid)
    \/ \E sid \in SessionIds : GetMealSummary(sid)
    \/ \E sid \in SessionIds, i \in IngredientInputs :
          AddIngredient(sid, Component(i[1], i[2], ConfirmNutrition(i[2]), now))
    \/ \E sid \in SessionIds, d \in Differences :
          CalculateWeightDifference(sid,
              d + (IF store[sid] = NULL THEN 0 ELSE store[sid].totalWeight))
    \/ \E sid \in SessionIds, body \in CorrectionInputs, providerOk \in BOOLEAN :
          CorrectWeight(sid, body, providerOk)
    \/ \E sid \in SessionIds : DeleteSession(sid)

Spec == Init /\ [][Next]_vars

-----------------------------------------------------------------------------
(* Concurrent calls.  A handler runs atomically between two awaits; the store *)
(* is touched only by client.get, client.setEx and client.del, so each call   *)
(* is a sequence of steps, one per store access, and the steps of the calls   *)
(* in flight interleave freely.                                               *)

\* addIngredient is called
AddBegin(p, sid, ingredient) ==
    /\ pc[p] = "idle"
    /\ pc' = [pc EXCEPT ![p] = "add_get"]
    /\ local' = [local EXCEPT ![p] =
                    [op |-> "addIngredient", sid |-> sid, ingredient |-> ingredient,
                     session |-> NULL, result |-> NULL]]
    /\ UNCHANGED <<store, expires, now, lastResult, ocr>>

\* addIngredient: await this.getSession(sessionId), and the return of null
AddGet(p) ==
    /\ pc[p] = "add_get"
    /\ LET session == getSession(store, local[p].sid)
       IN  IF session = NULL
           THEN /\ pc' = [pc EXCEPT ![p] = "returned"]
                /\ UNCHANGED local
           ELSE /\ Len(session.components) < MaxComponents
                /\ pc' = [pc EXCEPT ![p] = "add_set"]
                /\ local' = [local EXCEPT ![p].session = session]
    /\ UNCHANGED <<store, expires, now, lastResult, ocr>>

\* faulty variant: the write made from the session as it is stored at the write
AddSetFromStore(p) ==
    /\ pc[p] = "add_set"
    /\ LET current == getSession(store, local[p].sid)
           updatedSession ==
               AddIngredientUpdated(IF current = NULL THEN local[p].session
                                    ELSE current,
                                    local[p].ingredient, now)
       IN  /\ store' = setEx(store, local[p].sid, updatedSession)
           /\ expires' = setExpiry(expires, local[p].sid, SESSION_TTL, now)
           /\ local' = [local EXCEPT ![p].result = updatedSession]
    /\ pc' = [pc EXCEPT ![p] = "returned"]
    /\ UNCHANGED <<now, lastResult, ocr>>

\* addIngredient: await this.client.setEx(...) and the return of updatedSession
AddSet(p) ==
    /\ pc[p] = "add_set"
    /\ LET updatedSession ==
               AddIngredientUpdated(local[p].session, local[p].ingredient, now)
       IN  /\ store' = setEx(store, local[p].sid, updatedSession)
           /\ expires' = setExpiry(expires, local[p].sid, SESSION_TTL, now)
           /\ local' = [local EXCEPT ![p].result = updatedSession]
    /\ pc' = [pc EXCEPT ![p] = "returned"]
    /\ UNCHANGED <<now, lastResult, ocr>>

\* the caller has taken the result
Retire(p) ==
    /\ pc[p] = "returned"
    /\ pc' = [pc EXCEPT ![p] = "idle"]
    /\ local' = [local EXCEPT ![p] = NULL]
    /\ UNCHANGED <<store, expires, now, lastResult, ocr>>

NextConc ==
    \/ \E sid \in FreshIds : CreateSession(sid)
    \/ \E sid \in SessionIds : DeleteSession(sid)
    \/ \E p \in Procs, sid \in SessionIds, i \in IngredientInputs :
          AddBegin(p, sid, Component(i[1], i[2], ConfirmNutrition(i[2]), now))
    \/ \E p \in Procs : AddGet(p)
    \/ \E p \in Procs : AddSet(p)
    \/ \E p \in Procs : Retire(p)

SpecConc == Init /\ [][NextConc]_vars

-----------------------------------------------------------------------------
(* Concurrent additions, corrections and deletions on one session.  The     *)
(* correction route reads the session, and updateSession reads it again     *)
(* before it writes: three store accesses, three steps.                     *)

\* PUT /session/:sessionId/weight is called; the checks of the body
CorrectBegin(p, sid, body, providerOk) ==
    /\ pc[p] = "idle"
    /\ pc' = [pc EXCEPT ![p] =
                 IF body.weight <= 0 \/ body.unit \notin Units
                 THEN "returned" ELSE "correct_get"]
    /\ local' = [local EXCEPT ![p] =
                    [op |-> "correctWeight", sid |-> sid, body |-> body,
                     providerOk |-> providerOk, session |-> NULL,
                     updates |-> NULL, existing |-> NULL, result |-> NULL]]
    /\ UNCHANGED <<store, expires, now, lastResult, ocr>>

\* the route: await sessionService.getSession(sessionId), the checks on the
\* session, the nutrition of the corrected weight and the updated session
CorrectGet(p) ==
    /\ pc[p] = "correct_get"
    /\ LET session == getSession(store, local[p].sid)
           weightInGrams == convertToGrams(local[p].body.weight, local[p].body.unit)
       IN  IF \/ session = NULL
              \/ Len(session.components) = 0
              \/ CorrectionRejected(session, weightInGrams)
           THEN /\ pc' = [pc EXCEPT ![p] = "returned"]
                /\ UNCHANGED local
           ELSE /\ pc' = [pc EXCEPT ![p] = "update_get"]
                /\ local' = [local EXCEPT
                       ![p].session = session,
                       ![p].updates =
                           CorrectedSession(session, weightInGrams,
                               getNutritionData(session.components[Len(session.components)].food,
                                                weightInGrams, local[p].providerOk),
                               now)]
    /\ UNCHANGED <<store, expires, now, lastResult, ocr>>

\* updateSession: await this.getSession(sessionId), and the return of null
CorrectUpdateGet(p) ==
    /\ pc[p] = "update_get"
    /\ LET existingSession == getSession(store, local[p].sid)
       IN  IF existingSession = NULL
           THEN /\ pc' = [pc EXCEPT ![p] = "returned"]
                /\ UNCHANGED local
           ELSE /\ pc' = [pc EXCEPT ![p] = "update_set"]
                /\ local' = [local EXCEPT ![p].existing = existingSession]
    /\ UNCHANGED <<store, expires, now, lastResult, ocr>>

\* updateSession: await this.client.setEx(...) and the return of updatedSession
CorrectUpdateSet(p) ==
    /\ pc[p] = "update_set"
    /\ LET updatedSession ==
               UpdateSessionUpdated(local[p].existing, local[p].updates, now)
       IN  /\ store' = setEx(store, local[p].sid, updatedSession)
           /\ expires' = setExpiry(expires, local[p].sid, SESSION_TTL, now)
           /\ local' = [local EXCEPT ![p].result = updatedSession]
    /\ pc' = [pc EXCEPT ![p] = "returned"]
    /\ UNCHANGED <<now, lastResult, ocr>>

\* the components added and the bodies of the corrections sent concurrently
RaceIngredients == {<<"apple", G(100)>>, <<"banana", G(150)>>}
RaceCorrections == {[weight |-> G(120), unit |-> "g"]}

\* createSession hands out an id once: a deleted id is not created again
CreateSessionOnce(sid) ==
    /\ lastResult.op = "none"
    /\ CreateSession(sid)

NextRace ==
    \/ \E sid \in FreshIds : CreateSessionOnce(sid)
    \/ \E sid \in FreshIds : DeleteSession(sid)
    \/ \E p \in Procs, sid \in FreshIds, i \in RaceIngredients :
          AddBegin(p, sid, Component(i[1], i[2], ConfirmNutrition(i[2]), now))
    \/ \E p \in Procs : AddGet(p)
    \/ \E p \in Procs : AddSet(p)
    \/ \E p \in Procs, sid \in FreshIds, body \in RaceCorrections :
          CorrectBegin(p, sid, body, TRUE)
    \/ \E p \in Procs : CorrectGet(p)
    \/ \E p \in Procs : CorrectUpdateGet(p)
    \/ \E p \in Procs : CorrectUpdateSet(p)
    \/ \E p \in Procs : Retire(p)

SpecRace == Init /\ [][NextRace]_vars

-----------------------------------------------------------------------------
(* readScaleWeight: the retry ladder over the preprocessing variants *)

\* the end of the loop: return bestWeight, or the fallback reading
ReturnBest(o) ==
    IF o.bestWeight # NULL
    THEN [o EXCEPT !.state = "Succeeded", !.result = o.bestWeight]
    ELSE [o EXCEPT !.state = "Exhausted", !.result = UnreadableReading]

\* faulty variant: the loop going on to the next variant whatever was found
EndOfIterationWithoutBreak(o, break) ==
    IF o.attempt = Len(preprocessingOptions)
    THEN ReturnBest(o)
    ELSE [o EXCEPT !.attempt = o.attempt + 1]

\* faulty variant: the loop stepping over the variant that follows a failure
EndOfIterationSkippingVariant(o, break) ==
    IF break \/ o.attempt + 1 >= Len(preprocessingOptions)
    THEN ReturnBest(o)
    ELSE [o EXCEPT !.attempt = o.attempt + 2]

\* the end of one iteration: break, or the next variant, or the end of the list
EndOfIteration(o, break) ==
    IF break \/ o.attempt = Len(preprocessingOptions)
    THEN ReturnBest(o)
    ELSE [o EXCEPT !.attempt = o.attempt + 1]

\* one line of the call's history: what the iteration over a variant did
LogEntry(o, kind, message, passConfidence, selected) ==
    [variant |-> o.attempt, kind |-> kind, message |-> message,
     passConfidence |-> passConfidence, selected |-> selected]

\* faulty variant: the error of an attempt leaving readScaleWeight
AttemptRethrown(o, message) ==
    [o EXCEPT !.state = "Rejected",
              !.log = Append(o.log, LogEntry(o, "caught", message, 0, NULL))]

\* the inner catch: console.warn and continue
AttemptCaught(o, message) ==
    EndOfIteration(
        [o EXCEPT !.log = Append(o.log, LogEntry(o, "caught", message, 0, NULL))],
        FALSE)

\* faulty variant: candidates extracted from a pass whatever its confidence
AttemptRecognizedWithoutThreshold(o, ocrResult) ==
    LET weights == extractWeightFromText(ocrResult)
        selectedWeight == selectBestWeight(weights)
        o1 == [o EXCEPT !.log = Append(o.log,
                  LogEntry(o, "extracted", "", ocrResult.confidence,
                           selectedWeight))]
        o2 == IF selectedWeight # NULL
                 /\ selectedWeight.confidence > o.bestConfidence
              THEN [o1 EXCEPT !.bestWeight = selectedWeight,
                              !.bestConfidence = selectedWeight.confidence]
              ELSE o1
    IN  EndOfIteration(o2, o2.bestConfidence >= HIGH_CONFIDENCE_THRESHOLD)

\* faulty variant: the running best replaced by a candidate that equals it in
\* confidence
AttemptRecognizedReplacingOnEqual(o, ocrResult) ==
    IF ocrResult.confidence < MIN_CONFIDENCE_THRESHOLD
    THEN EndOfIteration(
             [o EXCEPT !.log = Append(o.log,
                 LogEntry(o, "skipped", "", ocrResult.confidence, NULL))],
             FALSE)
    ELSE LET weights == extractWeightFromText(ocrResult)
             selectedWeight == selectBestWeight(weights)
             o1 == [o EXCEPT !.log = Append(o.log,
                       LogEntry(o, "extracted", "", ocrResult.confidence,
                                selectedWeight))]
             o2 == IF selectedWeight # NULL
                      /\ selectedWeight.confidence >= o.bestConfidence
                   THEN [o1 EXCEPT !.bestWeight = selectedWeight,
                                   !.bestConfidence = selectedWeight.confidence]
                   ELSE o1
         IN  EndOfIteration(o2, o2.bestConfidence >= HIGH_CONFIDENCE_THRESHOLD)

\* the try body once performOCR has returned
AttemptRecognized(o, ocrResult) ==
    IF ocrResult.confidence < MIN_CONFIDENCE_THRESHOLD
    THEN EndOfIteration(
             [o EXCEPT !.log = Append(o.log,
                 LogEntry(o, "skipped", "", ocrResult.confidence, NULL))],
             FALSE)
    ELSE LET weights == extractWeightFromText(ocrResult)
             selectedWeight == selectBestWeight(weights)
             o1 == [o EXCEPT !.log = Append(o.log,
                       LogEntry(o, "extracted", "", ocrResult.confidence,
                                selectedWeight))]
             o2 == IF selectedWeight # NULL
                      /\ selectedWeight.confidence > o.bestConfidence
                   THEN [o1 EXCEPT !.bestWeight = selectedWeight,
                                   !.bestConfidence = selectedWeight.confidence]
                   ELSE o1
         IN  EndOfIteration(o2, o2.bestConfidence >= HIGH_CONFIDENCE_THRESHOLD)

\* readScaleWeight is called
ReadScaleWeight(image) ==
    /\ ocr.state = "NotStarted"
    /\ ocr' = [ocr EXCEPT !.state = "Attempting", !.image = image, !.attempt = 1]
    /\ UNCHANGED <<store, expires, now, lastResult, pc, local>>

\* an iteration in which preprocessImage rejects: sharp cannot decode the buffer
PreprocessFails ==
    /\ ocr.state = "Attempting"
    /\ ~ocr.image.decodable
    /\ ocr' = AttemptCaught(ocr, ERR_UNSUPPORTED_IMAGE)
    /\ UNCHANGED <<store, expires, now, lastResult, pc, local>>

\* an iteration in which performOCR rejects: the recognizer crashes
RecognizerFails ==
    /\ ocr.state = "Attempting"
    /\ ocr.image.decodable
    /\ ocr' = AttemptCaught(ocr, ERR_RECOGNIZER)
    /\ UNCHANGED <<store, expires, now, lastResult, pc, local>>

\* an iteration in which performOCR returns
Recognized(ocrResult) ==
    /\ ocr.state = "Attempting"
    /\ ocr.image.decodable
    /\ ocr' = AttemptRecognized(ocr, ocrResult)
    /\ UNCHANGED <<store, expires, now, lastResult, pc, local>>

NextOCR ==
    \/ \E image \in Images : ReadScaleWeight(image)
    \/ PreprocessFails
    \/ RecognizerFails
    \/ \E r \in OCRResults : Recognized(r)

SpecOCR == Init /\ [][NextOCR]_vars

\* every external call returns or throws: the iteration in progress always
\* comes to its end
SpecOCRFair == Init /\ [][NextOCR]_vars /\ WF_vars(NextOCR)

-----------------------------------------------------------------------------
(* readScaleWeight when a recognition call may never complete *)

\* an iteration in which the promise of Tesseract.recognize never settles:
\* performOCR awaits it with no timer, so the call stays at that await
RecognizerHangs ==
    /\ ocr.state = "Attempting"
    /\ ocr.image.decodable
    /\ ocr' = [ocr EXCEPT !.state = "AwaitingRecognizer",
                          !.log = Append(ocr.log, LogEntry(ocr, "pending", "", 0, NULL))]
    /\ UNCHANGED <<store, expires, now, lastResult, pc, local>>

NextOCRHang ==
    \/ \E image \in Images : ReadScaleWeight(image)
    \/ PreprocessFails
    \/ RecognizerFails
    \/ \E r \in OCRResults : Recognized(r)
    \/ RecognizerHangs

\* every step the call can take is eventually taken
SpecOCRHang == Init /\ [][NextOCRHang]_vars /\ WF_vars(NextOCRHang)

-----------------------------------------------------------------------------
(* selectBestWeight applied to the candidates of one pass *)

\* the candidates handed to selectBestWeight: confidences 5, 10, 11 and more
\* apart, readings inside and outside isReasonableWeight's ranges
SelectorConfidences == {70, 75, 80, 81, 92}
SelectorReadings ==
    {<<G(150), "g">>, <<G(6000), "g">>, <<G(1) \div 20, "oz">>, <<G(5), "lb">>}
SelectorCandidates ==
    {[value |-> r[1], unit |-> r[2], confidence |-> c, rawText |-> <<>>] :
        r \in SelectorReadings, c \in SelectorConfidences}

\* the pass produced two candidates, in this order
InitSelect ==
    /\ Init!1 /\ Init!2 /\ Init!3 /\ Init!5 /\ Init!6 /\ Init!7
    /\ \E a \in SelectorCandidates, b \in SelectorCandidates :
          lastResult = Result("candidates", "unknown", <<a, b>>, "ok", NULL, NULL)

\* selectBestWeight(weights)
SelectBestWeight ==
    /\ lastResult.op = "candidates"
    /\ lastResult' = Result("selectBestWeight", "unknown", lastResult.arg, "ok",
                            NULL, selectBestWeight(lastResult.arg))
    /\ UNCHANGED <<store, expires, now, pc, local, ocr>>

NextSelect == SelectBestWeight

SpecSelect == InitSelect /\ [][NextSelect]_vars

-----------------------------------------------------------------------------
(* selectBestWeight applied to candidate lists of every length and order *)

\* the longest candidate list
MaxCandidates == 3

\* the candidates: a reading inside and one outside isReasonableWeight's
\* ranges, at each of the confidences
ListCandidates ==
    {c \in SelectorCandidates : c.unit = "g"}

\* every list of 0 to MaxCandidates candidates, in every order
CandidateLists ==
    UNION {[1..n -> ListCandidates] : n \in 0..MaxCandidates}

InitSelectList ==
    /\ Init!1 /\ Init!2 /\ Init!3 /\ Init!5 /\ Init!6 /\ Init!7
    /\ \E weights \in CandidateLists :
          lastResult = Result("candidateList", "unknown", weights, "ok", NULL, NULL)

\* selectBestWeight(weights)
SelectBestWeightOfList ==
    /\ lastResult.op = "candidateList"
    /\ lastResult' = Result("selectBestWeight", "unknown", lastResult.arg, "ok",
                            NULL, selectBestWeight(lastResult.arg))
    /\ UNCHANGED <<store, expires, now, pc, local, ocr>>

NextSelectList == SelectBestWeightOfList

SpecSelectList == InitSelectList /\ [][NextSelectList]_vars

-----------------------------------------------------------------------------
(* Sessions over time: the store drops a key when its time to live is over *)

\* the clock advances by half an hour at a time, MaxTicks times at most
TickSeconds == 30 * 60
MaxTicks == 3

\* the partial session handed to updateSession, and extendSession's ttlSeconds
\* (its default and a shorter one)
UpdateInputs == {[id |-> "s1"]}
ExtendInputs == {SESSION_TTL, SESSION_TTL \div 2}

\* updateSession
UpdateSession(sid, updates) ==
    /\ store' = UpdateSessionStore(store, sid, updates, now)
    /\ expires' = UpdateSessionExpires(store, expires, sid, now)
    /\ LET updatedSession == UpdateSessionReturn(store, sid, updates, now)
       IN  lastResult' = Result("updateSession", sid, updates,
                                IF updatedSession = NULL THEN "null" ELSE "ok",
                                updatedSession, NULL)
    /\ UNCHANGED <<now, pc, local, ocr>>

\* extendSession: client.expire answers false for a key that is not stored
ExtendSession(sid, ttlSeconds) ==
    /\ expires' = IF store[sid] = NULL THEN expires
                  ELSE setExpiry(expires, sid, ttlSeconds, now)
    /\ lastResult' = Result("extendSession", sid, ttlSeconds,
                            IF store[sid] = NULL THEN "false" ELSE "true",
                            NULL, NULL)
    /\ UNCHANGED <<store, now, pc, local, ocr>>

\* time passes; the store no longer holds the keys whose expiry time has come
Tick ==
    /\ now < MaxTicks * TickSeconds
    /\ now' = now + TickSeconds
    /\ store' = [sid \in DOMAIN store |->
                    IF store[sid] # NULL /\ expires[sid] <= now'
                    THEN NULL ELSE store[sid]]
    /\ UNCHANGED <<expires, lastResult, pc, local, ocr>>

NextExpiry ==
    \/ \E sid \in FreshIds : CreateSession(sid)
    \/ \E sid \in SessionIds : GetSession(sid)
    \/ \E sid \in SessionIds : GetMealSummary(sid)
    \/ \E sid \in SessionIds :
          AddIngredient(sid, Component("apple", G(100), ConfirmNutrition(G(100)), now))
    \/ \E sid \in SessionIds, updates \in UpdateInputs : UpdateSession(sid, updates)
    \/ \E sid \in SessionIds, ttlSeconds \in ExtendInputs :
          ExtendSession(sid, ttlSeconds)
    \/ \E sid \in SessionIds : DeleteSession(sid)
    \/ Tick

SpecExpiry == Init /\ [][NextExpiry]_vars

-----------------------------------------------------------------------------
(* The two routes that write a weight, on request bodies as JSON.parse gives *)
(* them: a number of a body is finite, or Infinity / -Infinity (1e999 and    *)
(* -1e999 parse to them), or NaN                                             *)

\* a number slot holding a non-finite number, which JSON.stringify writes as
\* null; no operation of the model computes with it
NonFinite == 0 - 1

IsFiniteSession(session) == session.totalWeight # NonFinite

\* the weights of the request bodies
WeightInputs ==
    {[kind |-> "finite", value |-> G(100)], [kind |-> "finite", value |-> G(150)],
     [kind |-> "finite", value |-> 0], [kind |-> "finite", value |-> 0 - G(10)],
     [kind |-> "Infinity", value |-> 0], [kind |-> "-Infinity", value |-> 0],
     [kind |-> "NaN", value |-> 0]}

\* the weight is malformed: non-positive or non-finite
Malformed(weight) == weight.kind # "finite" \/ weight.value <= 0

\* POST /confirm: the mock nutrition when confirmedWeight is Infinity
\* (Math.round(Infinity * c) is Infinity, the two literal zeros stay)
ConfirmNutritionOfInfinity ==
    [f \in NutritionFields |-> IF ConfirmCoefficient[f] = 0 THEN 0 ELSE NonFinite]

\* ConfirmSelectionRequestSchema: confirmedWeight is z.number().positive();
\* whether z.number() lets Infinity through depends on the schema library's
\* version, NaN it never does
validateFoodConfirmation(weight, numberAllowsInfinity) ==
    \/ weight.kind = "finite" /\ weight.value > 0
    \/ weight.kind = "Infinity" /\ numberAllowsInfinity

\* POST /confirm
ConfirmSelection(sid, food, weight, numberAllowsInfinity) ==
    /\ LET session == getSession(store, sid)
           Fail(code) ==
               /\ lastResult' = Result("confirm", sid, weight, code, NULL, NULL)
               /\ UNCHANGED <<store, expires>>
       IN  IF ~validateFoodConfirmation(weight, numberAllowsInfinity)
           THEN Fail("INVALID_DATA")
           ELSE IF session = NULL THEN Fail("SESSION_NOT_FOUND")
           ELSE /\ IsFiniteSession(session)
                /\ Len(session.components) < MaxComponents
                /\ LET updatedSession ==
                           IF weight.kind = "finite"
                           THEN AddIngredientUpdated(session,
                                    Component(food, weight.value,
                                              ConfirmNutrition(weight.value), now),
                                    now)
                           ELSE [session EXCEPT
                                    !.components = Append(session.components,
                                        Component(food, NonFinite,
                                                  ConfirmNutritionOfInfinity, now)),
                                    !.totalWeight = NonFinite,
                                    !.previousWeight = session.totalWeight,
                                    !.lastUpdated = now]
                   IN  /\ store' = setEx(store, sid, updatedSession)
                       /\ expires' = setExpiry(expires, sid, SESSION_TTL, now)
                       /\ lastResult' = Result("confirm", sid, weight, "ok",
                                               updatedSession, NULL)
    /\ UNCHANGED <<now, pc, local, ocr>>

\* getNutritionData for the weight Infinity: the fallback scales every base
\* value to Infinity; the provider's nutrients of amount 0 are skipped
getNutritionDataOfInfinity(food, providerOk) ==
    [f \in NutritionFields |->
        IF providerOk /\ ProviderPer100g(food)[f] = 0 THEN 0 ELSE NonFinite]

\* PUT /session/:sessionId/weight with weight Infinity: weight <= 0 is false,
\* weightInGrams <= previousTotalWeight is false, the scaled nutrition values
\* and the new total are Infinity
CorrectWeightToInfinity(sid, unit, providerOk) ==
    /\ LET session == getSession(store, sid)
           Fail(code) ==
               /\ lastResult' = Result("correctWeight", sid,
                                       [kind |-> "Infinity", unit |-> unit],
                                       code, NULL, NULL)
               /\ UNCHANGED <<store, expires>>
       IN  IF unit \notin Units THEN Fail("INVALID_UNIT")
           ELSE IF session = NULL THEN Fail("SESSION_NOT_FOUND")
           ELSE IF Len(session.components) = 0 THEN Fail("NO_INGREDIENTS")
           ELSE LET n == Len(session.components)
                    updatedIngredient ==
                        [session.components[n] EXCEPT
                            !.weight = NonFinite,
                            !.nutrition = getNutritionDataOfInfinity(
                                              session.components[n].food,
                                              providerOk)]
                    updatedSession ==
                        [session EXCEPT
                            !.components = [session.components EXCEPT
                                               ![n] = updatedIngredient],
                            !.totalWeight = NonFinite,
                            !.lastUpdated = now]
                IN  /\ store' = UpdateSessionStore(store, sid, updatedSession, now)
                    /\ expires' = UpdateSessionExpires(store, expires, sid, now)
                    /\ lastResult' =
                         Result("correctWeight", sid,
                                [kind |-> "Infinity", unit |-> unit], "ok",
                                UpdateSessionReturn(store, sid, updatedSession, now),
                                NULL)
    /\ UNCHANGED <<now, pc, local, ocr>>

\* PUT /session/:sessionId/weight on a parsed body
CorrectWeightRequest(sid, weight, unit, providerOk) ==
    /\ getSession(store, sid) # NULL => IsFiniteSession(getSession(store, sid))
    /\ CASE weight.kind = "finite" ->
                CorrectWeight(sid, [weight |-> weight.value, unit |-> unit], providerOk)
         [] weight.kind \in {"NaN", "-Infinity"} ->
                /\ lastResult' = Result("correctWeight", sid,
                                        [kind |-> weight.kind, unit |-> unit],
                                        "INVALID_WEIGHT", NULL, NULL)
                /\ UNCHANGED <<store, expires, now, pc, local, ocr>>
         [] weight.kind = "Infinity" -> CorrectWeightToInfinity(sid, unit, providerOk)

NextRoutes ==
    \/ \E sid \in FreshIds : CreateSession(sid)
    \/ \E sid \in SessionIds, food \in {"apple", "banana"}, weight \in WeightInputs,
          numberAllowsInfinity \in BOOLEAN :
          ConfirmSelection(sid, food, weight, numberAllowsInfinity)
    \/ \E sid \in SessionIds, weight \in WeightInputs, unit \in {"g", "kg"},
          providerOk \in BOOLEAN :
          CorrectWeightRequest(sid, weight, unit, providerOk)

SpecRoutes == Init /\ [][NextRoutes]_vars

\* the same routes with the schema library at its strictest, where z.number()
\* refuses Infinity: POST /confirm then refuses every malformed weight
NextRoutesStrictSchema ==
    \/ \E sid \in FreshIds : CreateSession(sid)
    \/ \E sid \in SessionIds, food \in {"apple", "banana"}, weight \in WeightInputs :
          ConfirmSelection(sid, food, weight, FALSE)
    \/ \E sid \in SessionIds, weight \in WeightInputs, unit \in {"g", "kg"},
          providerOk \in BOOLEAN :
          CorrectWeightRequest(sid, weight, unit, providerOk)

SpecRoutesStrictSchema == Init /\ [][NextRoutesStrictSchema]_vars

-----------------------------------------------------------------------------
(* convertWeight applied there and back *)

\* the weights converted, counted in 1/10000 of their unit: 0.0001, 1, 2.5,
\* 16, 28.3495, 30 and 35.274
ConvertedWeights ==
    {1, G(1), G(5) \div 2, G(16), GRAMS_PER_OUNCE, G(30), 352740}

InitConvert ==
    /\ Init!1 /\ Init!2 /\ Init!3 /\ Init!5 /\ Init!6 /\ Init!7
    /\ \E x \in ConvertedWeights, fromUnit \in Units, toUnit \in Units :
          lastResult = Result("weight", "unknown",
                              [weight |-> x, fromUnit |-> fromUnit, toUnit |-> toUnit],
                              "ok", NULL, NULL)

\* convertWeight(x, A, B)
ConvertWeight ==
    /\ lastResult.op = "weight"
    /\ LET a == lastResult.arg
       IN  lastResult' = Result("convertWeight", "unknown", a, "ok", NULL,
                                [there |-> convertWeight(a.weight, a.fromUnit, a.toUnit)])
    /\ UNCHANGED <<store, expires, now, pc, local, ocr>>

\* convertWeight(convertWeight(x, A, B), B, A)
ConvertWeightBack ==
    /\ lastResult.op = "convertWeight"
    /\ LET a == lastResult.arg
           there == lastResult.calc.there
       IN  lastResult' = Result("convertWeightBack", "unknown", a, "ok", NULL,
                                [there |-> there,
                                 back |-> convertWeight(there, a.toUnit, a.fromUnit)])
    /\ UNCHANGED <<store, expires, now, pc, local, ocr>>

NextConvert == ConvertWeight \/ ConvertWeightBack

SpecConvert == InitConvert /\ [][NextConvert]_vars

-----------------------------------------------------------------------------
(* extractWeightFromText applied to one recognizer pass *)

\* the pass confidences, the recognized texts (one number with or without a
\* unit word) and, for a number, the word lists the recognizer may report
ExtractorConfidences == {5, 15, 60, 85, 95, 100}
ExtractorTokens ==
    {[num |-> "150.5", unit |-> "g"], [num |-> "2", unit |-> "lbs"],
     [num |-> "2", unit |-> "ounces"], [num |-> "88", unit |-> ""],
     [num |-> "20000", unit |-> "g"], [num |-> "20000", unit |-> ""],
     [num |-> "0.05", unit |-> "oz"], [num |-> "0", unit |-> "g"]}
ExtractorWords(num) ==
    {<<>>,
     << [text |-> num, confidence |-> 90] >>,
     << [text |-> num, confidence |-> 0] >>,
     << [text |-> num, confidence |-> 0], [text |-> num, confidence |-> 33] >>}
ExtractorResults ==
    UNION {{[text |-> <<t>>, confidence |-> c, words |-> w] :
               c \in ExtractorConfidences, w \in ExtractorWords(t.num)} :
           t \in ExtractorTokens}

\* performOCR has returned one of the passes
InitExtract ==
    /\ Init!1 /\ Init!2 /\ Init!3 /\ Init!5 /\ Init!6 /\ Init!7
    /\ \E r \in ExtractorResults :
          lastResult = Result("ocrResult", "unknown", r, "ok", NULL, NULL)

\* extractWeightFromText(ocrResult)
ExtractWeightFromText ==
    /\ lastResult.op = "ocrResult"
    /\ lastResult' = Result("extractWeightFromText", "unknown", lastResult.arg, "ok",
                            NULL, extractWeightFromText(lastResult.arg))
    /\ UNCHANGED <<store, expires, now, pc, local, ocr>>

NextExtract == ExtractWeightFromText

SpecExtract == InitExtract /\ [][NextExtract]_vars

-----------------------------------------------------------------------------
(* The ledger over time: additions and corrections made at different clock *)
(* readings, on ledgers of up to MaxLedger components                       *)

\* the components A, B and C handed to addIngredient: 100 g, 150 g and 200 g
LedgerIngredients ==
    <<<<"apple", G(100)>>, <<"banana", G(150)>>, <<"orange", G(200)>>>>

\* the longest ledger: A, B and C have been added
MaxLedger == Len(LedgerIngredients)

\* the bodies sent to PUT /session/:sessionId/weight: 120 g, 300 g and 12 oz
LedgerCorrections ==
    {[weight |-> G(120), unit |-> "g"], [weight |-> G(300), unit |-> "g"],
     [weight |-> G(12), unit |-> "oz"]}

\* the component the caller adds next: A to an empty ledger, then B, then C
NextIngredient(sid) ==
    LET session == getSession(store, sid)
        k == IF session = NULL THEN 1 ELSE Len(session.components) + 1
    IN  Component(LedgerIngredients[k][1], LedgerIngredients[k][2],
                  ConfirmNutrition(LedgerIngredients[k][2]), now)

NextLedger ==
    \/ \E sid \in FreshIds : CreateSession(sid)
    \/ \E sid \in SessionIds :
          /\ getSession(store, sid) # NULL =>
                 Len(getSession(store, sid).components) < MaxLedger
          /\ AddIngredientCall(sid, NextIngredient(sid))
    \/ \E sid \in SessionIds, body \in LedgerCorrections, providerOk \in BOOLEAN :
          CorrectWeight(sid, body, providerOk)
    \/ Tick

SpecLedger == Init /\ [][NextLedger]_vars

-----------------------------------------------------------------------------
(* POST /upload on an image, with or without the id of a session to continue *)

\* what readScaleWeight returns for the image: readings in g, lb and oz, and
\* the sentinel
UploadReadings ==
    {[value |-> 1505000, unit |-> "g", confidence |-> 85, rawText |-> <<"150.5", "g">>],
     [value |-> G(250), unit |-> "g", confidence |-> 85, rawText |-> <<"250", "g">>],
     [value |-> G(2), unit |-> "lb", confidence |-> 72, rawText |-> <<"2", "lb">>],
     [value |-> G(5), unit |-> "oz", confidence |-> 72, rawText |-> <<"5", "oz">>],
     [value |-> G(300), unit |-> "oz", confidence |-> 72, rawText |-> <<"300", "oz">>],
     UnreadableReading}

\* the sessionId field of the request body: absent or empty (""), or an id
UploadSessionIds == {""} \cup SessionIds

\* POST /upload
Upload(newId, existingSessionId, detectedWeight, foodDetected) ==
    /\ store' = setEx(store, newId, EmptySession(newId, now))
    /\ expires' = setExpiry(expires, newId, SESSION_TTL, now)
    /\ LET request == [sessionId |-> existingSessionId,
                       detectedWeight |-> detectedWeight]
           weightValidation ==
               WeightDifferenceResult(getSession(store', existingSessionId),
                                      detectedWeight.value)
       IN  lastResult' =
             IF detectedWeight.confidence < 60
             THEN Result("upload", newId, request, "LOW_CONFIDENCE_OCR", NULL, NULL)
             ELSE IF ~foodDetected
             THEN Result("upload", newId, request, "NO_FOOD_DETECTED", NULL, NULL)
             ELSE IF existingSessionId = ""
             THEN Result("upload", newId, request, "ok", NULL, NULL)
             ELSE IF ~weightValidation.isValid
             THEN Result("upload", newId, request, "INVALID_WEIGHT_DIFFERENCE",
                         NULL, weightValidation)
             ELSE Result("upload", existingSessionId, request, "ok", NULL,
                         weightValidation)
    /\ UNCHANGED <<now, pc, local, ocr>>

NextUpload ==
    \/ \E sid \in FreshIds : CreateSession(sid)
    \/ \E sid \in FreshIds :
          /\ getSession(store, sid) # NULL =>
                 Len(getSession(store, sid).components) < MaxLedger
          /\ AddIngredientCall(sid, NextIngredient(sid))
    \/ \E newId \in UploadIds, existingSessionId \in UploadSessionIds,
          detectedWeight \in UploadReadings, foodDetected \in BOOLEAN :
          Upload(newId, existingSessionId, detectedWeight, foodDetected)

SpecUpload == Init /\ [][NextUpload]_vars

-----------------------------------------------------------------------------
(* Validate, then add: the caller asks calculateWeightDifference about a     *)
(* scale reading and commits the difference it was given with                *)
(* addIngredient.  Weights are JavaScript numbers here, in grams.            *)

NUMBER_MIN_DIFFERENCE == Double(<<0, 0, 0, 16>>)            \* 1
NUMBER_MAX_DIFFERENCE == Double(<<0, 0, 0, 14464, 1>>)      \* 5000

\* the total scale readings tried
ScaleReadings ==
    {Double(<<13120, 13107, 13107, 595>>),       \* 37.2
     Double(<<13120, 13107, 13107, 1067>>),      \* 66.7
     Double(<<0, 0, 0, 1600>>),                  \* 100
     Double(<<39296, 39321, 39321, 1761>>),      \* 110.1
     Double(<<26240, 26214, 26214, 3550>>),      \* 221.9
     Double(<<39296, 39321, 39321, 3681>>),      \* 230.1
     Double(<<0, 0, 0, 4000>>),                  \* 250
     Double(<<52480, 52428, 52428, 7460>>)}      \* 466.3

\* createSession's empty session, its weights as numbers
NumberEmptySession(sessionId, t) ==
    [EmptySession(sessionId, t) EXCEPT
        !.totalWeight = NumberZero, !.previousWeight = NumberZero]

\* faulty variant: addIngredient leaving previousWeight as it was
NumberAddIngredientKeepingPrevious(session, ingredient, t) ==
    [session EXCEPT
        !.components = Append(session.components, ingredient),
        !.totalWeight = NumberAdd(ingredient.weight, session.totalWeight),
        !.lastUpdated = t]

\* addIngredient's updatedSession, + being the addition of doubles
NumberAddIngredientUpdated(session, ingredient, t) ==
    [session EXCEPT
        !.components = Append(session.components, ingredient),
        !.totalWeight = NumberAdd(ingredient.weight, session.totalWeight),
        !.previousWeight = session.totalWeight,
        !.lastUpdated = t]

\* calculateWeightDifference, - being the subtraction of doubles
NumberWeightDifferenceResult(session, newTotalWeight) ==
    IF session = NULL
    THEN [difference |-> NumberZero, previousWeight |-> NumberZero,
          isValid |-> FALSE, error |-> ERR_NO_SESSION]
    ELSE LET difference == NumberSubtract(newTotalWeight, session.totalWeight)
             previousWeight == session.totalWeight
         IN  IF ~NumberLess(NumberZero, difference)
             THEN [difference |-> difference, previousWeight |-> previousWeight,
                   isValid |-> FALSE, error |-> ERR_NOT_GREATER]
             ELSE IF NumberLess(NUMBER_MAX_DIFFERENCE, difference)
             THEN [difference |-> difference, previousWeight |-> previousWeight,
                   isValid |-> FALSE, error |-> ERR_TOO_LARGE]
             ELSE IF NumberLess(difference, NUMBER_MIN_DIFFERENCE)
             THEN [difference |-> difference, previousWeight |-> previousWeight,
                   isValid |-> FALSE, error |-> ERR_TOO_SMALL]
             ELSE [difference |-> difference, previousWeight |-> previousWeight,
                   isValid |-> TRUE, error |-> ""]

\* createSession
CreateNumberSession(sid) ==
    /\ store[sid] = NULL
    /\ store' = setEx(store, sid, NumberEmptySession(sid, now))
    /\ expires' = setExpiry(expires, sid, SESSION_TTL, now)
    /\ lastResult' = Result("createSession", sid, NULL, "ok", NULL, NULL)
    /\ UNCHANGED <<now, pc, local, ocr>>

\* the caller validates the reading
ValidateReading(sid, newTotalWeight) ==
    /\ lastResult' = Result("calculateWeightDifference", sid, newTotalWeight, "ok",
                            NULL,
                            NumberWeightDifferenceResult(getSession(store, sid),
                                                         newTotalWeight))
    /\ UNCHANGED <<store, expires, now, pc, local, ocr>>

\* the caller commits the difference it was just given for sid; the result
\* keeps the reading and the validation it came from
CommitValidated(sid) ==
    /\ lastResult.op = "calculateWeightDifference"
    /\ lastResult.sid = sid
    /\ lastResult.calc.isValid
    /\ LET session == getSession(store, sid)
           ingredient == Component("apple", lastResult.calc.difference, NULL, now)
           updatedSession == NumberAddIngredientUpdated(session, ingredient, now)
       IN  /\ session # NULL
           /\ Len(session.components) < MaxComponents
           /\ store' = setEx(store, sid, updatedSession)
           /\ expires' = setExpiry(expires, sid, SESSION_TTL, now)
           /\ lastResult' = Result("addIngredient", sid, lastResult.arg, "ok",
                                   updatedSession, lastResult.calc)
    /\ UNCHANGED <<now, pc, local, ocr>>

NextNumber ==
    \/ \E sid \in FreshIds : CreateNumberSession(sid)
    \/ \E sid \in SessionIds, newTotalWeight \in ScaleReadings :
          ValidateReading(sid, newTotalWeight)
    \/ \E sid \in SessionIds : CommitValidated(sid)

SpecNumber == Init /\ [][NextNumber]_vars

-----------------------------------------------------------------------------
(* Properties *)

Stored(sid) == getSession(store, sid)

\* a step that is a completed call of op
CallOf(op) == lastResult' # lastResult /\ lastResult'.op = op

LastComponent(session) == session.components[Len(session.components)]

\* C1: in every reachable state of a session, under createSession,
\* addIngredient and correctWeight applied one after another, totalWeight is
\* the sum of the weights of the components in the ledger (0 when empty).
C1_TotalWeightIsSum ==
    \A sid \in SessionIds :
        Stored(sid) # NULL =>
            Stored(sid).totalWeight = SumWeights(Stored(sid).components)

\* C1 witness: a second ingredient has just been added to a session
C1_Witness ==
    /\ lastResult.op = "addIngredient"
    /\ lastResult.status = "ok"
    /\ Len(Stored("s1").components) = 2
    /\ Stored("s1").totalWeight = G(100) + G(6000)

PreviousWeightOf(session) ==
    IF session.components = <<>> THEN 0
    ELSE session.totalWeight - LastComponent(session).weight

CalcDifference == lastResult.arg - Stored(lastResult.sid).totalWeight

CalcOnSession ==
    lastResult.op = "calculateWeightDifference" /\ Stored(lastResult.sid) # NULL

\* C3: an invalid difference d is classified in this order: d <= 0 gives
\* 'must be greater than previous weight'; otherwise d > 5000 g gives 'seems
\* too large'; otherwise d < 1 g gives 'too small'; an invalid result carries
\* exactly one of these errors.
C3_InvalidDifferenceClassified ==
    CalcOnSession =>
        LET d == CalcDifference
            r == lastResult.calc
            Phrases == {"must be greater than previous weight", "seems too large",
                        "too small"}
        IN  /\ d <= 0 =>
                ~r.isValid /\ ErrorContains(r.error, "must be greater than previous weight")
            /\ d > 0 /\ d > MAX_DIFFERENCE =>
                ~r.isValid /\ ErrorContains(r.error, "seems too large")
            /\ d > 0 /\ d <= MAX_DIFFERENCE /\ d < MIN_DIFFERENCE =>
                ~r.isValid /\ ErrorContains(r.error, "too small")
            /\ ~r.isValid =>
                Cardinality({ph \in Phrases : ErrorContains(r.error, ph)}) = 1

\* C3 witness: a reading below the stored total of a session with components
C3_Witness ==
    /\ CalcOnSession
    /\ Len(Stored(lastResult.sid).components) > 0
    /\ CalcDifference < 0
    /\ ~lastResult.calc.isValid

\* C4: isValid holds exactly for 1 g <= d <= 5000 g, and the result carries
\* difference = newTotal - totalWeight and previousWeight = totalWeight.
C4_ValidExactlyInRange ==
    CalcOnSession =>
        LET d == CalcDifference
            r == lastResult.calc
        IN  /\ r.isValid <=> (d >= G(1) /\ d <= G(5000))
            /\ r.difference = d
            /\ r.previousWeight = Stored(lastResult.sid).totalWeight

\* C4 witness: a difference of exactly 1 g is accepted on a non-empty session
C4_Witness ==
    /\ CalcOnSession
    /\ Stored(lastResult.sid).totalWeight > 0
    /\ CalcDifference = G(1)
    /\ lastResult.calc.isValid

\* C5: calculateWeightDifference changes nothing in the store, whatever the
\* session and the weight, and creates no session for an unknown id.
C5_CalculateMutatesNothing ==
    [][CallOf("calculateWeightDifference") => store' = store]_vars

\* C5 witness: the pre-check was made for an id without a session while a
\* session with components is stored
C5_Witness ==
    /\ lastResult.op = "calculateWeightDifference"
    /\ Stored(lastResult.sid) = NULL
    /\ Stored("s1") # NULL
    /\ Len(Stored("s1").components) > 0

\* correctWeight's precondition fails on the session: no component, or more
\* than one and a corrected weight not above the sum of the others
CorrectionPreconditionFails(session, body) ==
    /\ session # NULL
    /\ body.unit \in Units
    /\ \/ Len(session.components) = 0
       \/ /\ Len(session.components) > 1
          /\ convertToGrams(body.weight, body.unit) <=
                SumWeights(SubSeq(session.components, 1, Len(session.components) - 1))

C7_AddIngredientCommitsAnyWeight ==
    [][(CallOf("addIngredient") /\ Stored(lastResult'.sid) # NULL) =>
        LET before == Stored(lastResult'.sid)
            after == getSession(store', lastResult'.sid)
        IN  /\ lastResult'.status = "ok"
            /\ after.components = Append(before.components, lastResult'.arg)
            /\ after.totalWeight = before.totalWeight + lastResult'.arg.weight]_vars

\* C7 witness: the ledger holds a component below 1 g and one above 5000 g
C7_Witness ==
    /\ Stored("s1") # NULL
    /\ \E i \in DOMAIN Stored("s1").components :
          Stored("s1").components[i].weight < G(1)
    /\ \E i \in DOMAIN Stored("s1").components :
          Stored("s1").components[i].weight > G(5000)

\* two addIngredient calls on one session that both read the same stored
\* session, q having written and returned, p about to write
BothReadBeforeEitherWrote(p, q) ==
    /\ p # q
    /\ pc[p] = "add_set"
    /\ pc[q] = "returned"
    /\ local[q].result # NULL
    /\ local[q].sid = local[p].sid
    /\ local[q].session = local[p].session

IsWeightReading(r) ==
    /\ DOMAIN r = {"value", "unit", "confidence", "rawText"}
    /\ r.unit \in Units
    /\ r.confidence \in 0..100

\* C9: readScaleWeight never rejects: whatever fails in an attempt it ends
\* with a WeightReading, and with value 0 and confidence 0 when no variant
\* yielded a recorded candidate.
C9_ReadScaleWeightNeverThrows ==
    /\ ocr.state \in {"NotStarted", "Attempting", "Succeeded", "Exhausted"}
    /\ ocr.state \in {"Succeeded", "Exhausted"} =>
          /\ IsWeightReading(ocr.result)
          /\ ocr.bestWeight = NULL =>
                ocr.result.value = 0 /\ ocr.result.confidence = 0

AttemptsCaught == {i \in DOMAIN ocr.log : ocr.log[i].kind = "caught"}

\* C9 witness: the call ended after an attempt failed and nothing was recorded
C9_Witness ==
    /\ ocr.state = "Exhausted"
    /\ AttemptsCaught # {}
    /\ ocr.bestWeight = NULL
    /\ ocr.result.confidence = 0

\* C10: when the attempts fail with an error, the confidence-0 sentinel that
\* is returned carries that error's message in rawText.
C10_SentinelCarriesErrorMessage ==
    (/\ ocr.state = "Exhausted"
     /\ AttemptsCaught = DOMAIN ocr.log) =>
        \E i \in AttemptsCaught :
            ocr.result.rawText = OCRErrorReading(ocr.log[i].message).rawText

\* the running best after the i-th iteration of the call's history: the
\* greatest confidence selected so far (0 when nothing was recorded)
RECURSIVE RunningBestConfidence(_)
RunningBestConfidence(i) ==
    IF i = 0 THEN 0
    ELSE LET before == RunningBestConfidence(i - 1)
             e == ocr.log[i]
         IN  IF e.selected # NULL /\ e.selected.confidence > before
             THEN e.selected.confidence ELSE before

\* C11: once the running best confidence is at least 80 after an attempt, no
\* later variant is preprocessed or recognized (that attempt is the last of
\* the history) and the reading returned is that running best.
C11_EarlyExitAtHighConfidence ==
    \A i \in DOMAIN ocr.log :
        RunningBestConfidence(i) >= HIGH_CONFIDENCE_THRESHOLD =>
            /\ i = Len(ocr.log)
            /\ ocr.state = "Succeeded"
            /\ ocr.result = ocr.bestWeight
            /\ ocr.result.confidence = RunningBestConfidence(i)

\* C11 witness: the first attempt yields confidence 85 and the call returns
\* it although two variants were never tried
C11_Witness ==
    /\ ocr.state = "Succeeded"
    /\ Len(ocr.log) = 1
    /\ Len(ocr.log) < Len(preprocessingOptions)
    /\ ocr.result.confidence = 85

\* C12: a pass whose whole-pass confidence is below 60 extracts no candidate
\* and leaves the running best exactly as it was; a pass at 60 or above is
\* processed.
C12_LowConfidencePassSkipped ==
    [][(Len(ocr'.log) = Len(ocr.log) + 1
        /\ ocr'.log[Len(ocr'.log)].kind # "caught") =>
          LET e == ocr'.log[Len(ocr'.log)]
          IN  /\ e.passConfidence < MIN_CONFIDENCE_THRESHOLD =>
                    /\ e.selected = NULL
                    /\ ocr'.bestWeight = ocr.bestWeight
                    /\ ocr'.bestConfidence = ocr.bestConfidence
              /\ e.passConfidence >= MIN_CONFIDENCE_THRESHOLD =>
                    e.kind = "extracted"]_vars

\* C12 witness: a pass of confidence 40 came after a recorded candidate and
\* the running best is still that candidate; a pass of confidence exactly 60
\* was processed
C12_Witness ==
    /\ Len(ocr.log) = 3
    /\ ocr.log[1].kind = "extracted" /\ ocr.log[1].passConfidence = 60
    /\ ocr.log[1].selected # NULL
    /\ ocr.log[2].kind = "skipped" /\ ocr.log[2].passConfidence = 40
    /\ ocr.bestWeight = ocr.log[1].selected

\* C13: each recognition call is bounded by a per-attempt timeout, so a call
\* of readScaleWeight that was started eventually returns, also when a
\* recognizer call never completes.
C13_ReadScaleWeightEventuallyReturns ==
    (ocr.state = "Attempting") ~> (ocr.state \in {"Succeeded", "Exhausted"})

\* the plausibility window of a reading: g 1-5000, oz 0.1-176, lb 0.01-11
InPlausibilityWindow(w) ==
    \/ w.unit = "g" /\ w.value >= G(1) /\ w.value <= G(5000)
    \/ w.unit = "oz" /\ 10 * w.value >= G(1) /\ w.value <= G(176)
    \/ w.unit = "lb" /\ 100 * w.value >= G(1) /\ w.value <= G(11)

\* the candidates of {a, b} the selector rule allows to be returned
PreferredOf(a, b) ==
    LET higher == IF a.confidence > b.confidence THEN {a}
                  ELSE IF b.confidence > a.confidence THEN {b} ELSE {a, b}
        apart == IF a.confidence > b.confidence
                 THEN a.confidence - b.confidence ELSE b.confidence - a.confidence
    IN  IF apart > 10 THEN higher
        ELSE IF InPlausibilityWindow(a) /\ ~InPlausibilityWindow(b) THEN {a}
        ELSE IF InPlausibilityWindow(b) /\ ~InPlausibilityWindow(a) THEN {b}
        ELSE higher

\* C14: of two candidates the selector returns the higher-confidence one when
\* the confidences are more than 10 apart; otherwise the one inside the
\* plausibility window when exactly one is; otherwise the higher-confidence
\* one.
C14_SelectorRule ==
    lastResult.op = "selectBestWeight" =>
        lastResult.calc \in PreferredOf(lastResult.arg[1], lastResult.arg[2])

\* C14 witness: confidences 75 and 70, only the 70 candidate is plausible,
\* and the selector returned the 70 candidate
C14_Witness ==
    /\ lastResult.op = "selectBestWeight"
    /\ lastResult.arg[1].confidence = 75 /\ ~InPlausibilityWindow(lastResult.arg[1])
    /\ lastResult.arg[2].confidence = 70 /\ InPlausibilityWindow(lastResult.arg[2])
    /\ lastResult.calc = lastResult.arg[2]

\* the sum of one nutrition field over a ledger
RECURSIVE SumField(_, _)
SumField(components, f) ==
    IF components = <<>> THEN 0
    ELSE Head(components).nutrition[f] + SumField(Tail(components), f)

\* C15: getMealSummary of an existing session is never null and returns the
\* field-wise sum of the components' nutrition, the session's totalWeight and
\* the number of components; all zero for an empty session.
C15_MealSummaryIsFieldwiseSum ==
    (lastResult.op = "getMealSummary" /\ Stored(lastResult.sid) # NULL) =>
        LET session == Stored(lastResult.sid)
            summary == lastResult.calc
        IN  /\ summary # NULL
            /\ \A f \in NutritionFields :
                  summary.totalNutrition[f] = SumField(session.components, f)
            /\ summary.componentCount = Len(session.components)
            /\ summary.totalWeight = session.totalWeight
            /\ summary.totalWeight = SumWeights(session.components)
            /\ session.components = <<>> =>
                  /\ summary.totalWeight = 0
                  /\ \A f \in NutritionFields : summary.totalNutrition[f] = 0

\* C15 witness: the summary of a ledger of two components with different
\* nutrition was taken
C15_Witness ==
    /\ lastResult.op = "getMealSummary"
    /\ lastResult.calc # NULL
    /\ lastResult.calc.componentCount = 2
    /\ Stored(lastResult.sid).components[1].nutrition
          # Stored(lastResult.sid).components[2].nutrition
    /\ lastResult.calc.totalNutrition.calories =
          Stored(lastResult.sid).components[1].nutrition.calories
          + Stored(lastResult.sid).components[2].nutrition.calories

\* C16: for an id with no stored session (never created, deleted or expired)
\* getSession, getMealSummary, addIngredient and updateSession answer null
\* and leave the store as it is: no session is created.
C16_UnknownSessionYieldsNull ==
    [][\A op \in {"getSession", "getMealSummary", "addIngredient", "updateSession"} :
          (lastResult' # lastResult /\ lastResult'.op = op
           /\ store[lastResult'.sid] = NULL) =>
              /\ lastResult'.status = "null"
              /\ lastResult'.session = NULL
              /\ op = "getMealSummary" => lastResult'.calc = NULL
              /\ store' = store
              /\ expires' = expires]_vars

\* C16 witness: updateSession answered null for a session that had expired
C16_Witness ==
    /\ lastResult.op = "updateSession"
    /\ lastResult.sid = "s1"
    /\ lastResult.status = "null"
    /\ store["s1"] = NULL
    /\ expires["s1"] > 0 /\ expires["s1"] <= now

C17_MalformedWeightRejectedBeforeWrite ==
    [][(lastResult' # lastResult
        /\ \/ lastResult'.op = "confirm" /\ Malformed(lastResult'.arg)
           \/ /\ lastResult'.op = "correctWeight"
              /\ \/ "kind" \in DOMAIN lastResult'.arg
                 \/ lastResult'.arg.weight <= 0) =>
          /\ lastResult'.status # "ok"
          /\ store' = store]_vars

\* C18: confirmation and correction scale nutrition the same way: the
\* component a correction leaves at weight w has the nutrition a confirmation
\* of the same food at w gives.
C18_CorrectionMatchesConfirmation ==
    (lastResult.op = "correctWeight" /\ lastResult.status = "ok"
     /\ IsFiniteSession(lastResult.session)) =>
        LET corrected == LastComponent(lastResult.session)
        IN  corrected.nutrition = ConfirmNutrition(corrected.weight)

\* the grams of one unit, counted in 1/10000 g
GramsPer(unit) ==
    CASE unit = "g" -> UnitsPerGram
      [] unit = "oz" -> GRAMS_PER_OUNCE
      [] unit = "lb" -> GRAMS_PER_POUND

\* the tolerance of a round trip from A through B, in 1/10000 of A: every
\* result is rounded to 1/10000 of its unit, so the intermediate value is off
\* by half a step of B at most, and the final rounding adds half a step of A
RoundTripTolerance(fromUnit, toUnit) ==
    (GramsPer(toUnit) \div GramsPer(fromUnit)) \div 2 + 1

\* C19: converting a weight from A to B and back gives the weight again
\* within the rounding tolerance, and converting from a unit to itself gives
\* exactly the weight.
C19_ConvertWeightRoundTrip ==
    lastResult.op = "convertWeightBack" =>
        LET a == lastResult.arg
            error == lastResult.calc.back - a.weight
        IN  /\ error <= RoundTripTolerance(a.fromUnit, a.toUnit)
            /\ 0 - error <= RoundTripTolerance(a.fromUnit, a.toUnit)
            /\ a.fromUnit = a.toUnit =>
                  lastResult.calc.there = a.weight /\ lastResult.calc.back = a.weight

\* C19 witness: 1 lb went to 16 oz and came back as 1 lb
C19_Witness ==
    /\ lastResult.op = "convertWeightBack"
    /\ lastResult.arg = [weight |-> G(1), fromUnit |-> "lb", toUnit |-> "oz"]
    /\ lastResult.calc.there = G(16)
    /\ lastResult.calc.back = G(1)

\* C21: a successful correctWeight changes the last component's weight and
\* nutrition, totalWeight (the sum over all components) and lastUpdated, and
\* nothing else: the number and order of the components, every other
\* component, the last component's food and addedAt, previousWeight, id and
\* createdAt are as they were.
C21_CorrectionFrame ==
    [][(CallOf("correctWeight") /\ lastResult'.status = "ok") =>
        LET before == Stored(lastResult'.sid)
            after == getSession(store', lastResult'.sid)
            n == Len(before.components)
        IN  /\ Len(after.components) = n
            /\ \A i \in 1..(n - 1) : after.components[i] = before.components[i]
            /\ after.components[n].food = before.components[n].food
            /\ after.components[n].addedAt = before.components[n].addedAt
            /\ after.components[n].weight =
                  convertToGrams(lastResult'.arg.weight, lastResult'.arg.unit)
            /\ after.totalWeight = SumWeights(after.components)
            /\ after.previousWeight = before.previousWeight
            /\ after.id = before.id
            /\ after.createdAt = before.createdAt
            /\ DOMAIN after = DOMAIN before
            /\ DOMAIN after.components[n] = DOMAIN before.components[n]]_vars

\* C21 witness: the last of three components, added at three clock readings,
\* has been corrected to 12 oz at a later reading
C21_Witness ==
    /\ lastResult.op = "correctWeight"
    /\ lastResult.status = "ok"
    /\ lastResult.arg.unit = "oz"
    /\ Stored("s1") # NULL
    /\ Len(Stored("s1").components) = MaxLedger
    /\ Stored("s1").components[1].addedAt > Stored("s1").createdAt
    /\ Stored("s1").components[1].addedAt < LastComponent(Stored("s1")).addedAt
    /\ LastComponent(Stored("s1")).addedAt < Stored("s1").lastUpdated
    /\ LastComponent(Stored("s1")).weight = convertToGrams(G(12), "oz")

\* the ledger holds the first n of the components A, B, C, in that order, as
\* they were handed over
IsLedgerPrefix(components) ==
    /\ Len(components) <= Len(LedgerIngredients)
    /\ \A i \in DOMAIN components :
          /\ components[i].food = LedgerIngredients[i][1]
          /\ components[i].weight = LedgerIngredients[i][2]
          /\ components[i].nutrition = ConfirmNutrition(LedgerIngredients[i][2])

\* C22: a successful addIngredient appends the given component as the last
\* element of the ledger and changes nothing else in it: the count grows by
\* exactly one, the earlier components keep their content and their order,
\* and adding A, B, C in sequence leaves the ledger [A, B, C].
C22_AddIngredientAppends ==
    [][(CallOf("addIngredient") /\ lastResult'.status = "ok") =>
        LET before == Stored(lastResult'.sid).components
            after == getSession(store', lastResult'.sid).components
        IN  /\ Len(after) = Len(before) + 1
            /\ after[Len(after)] = lastResult'.arg
            /\ \A i \in DOMAIN before : after[i] = before[i]
            /\ IsLedgerPrefix(before) => IsLedgerPrefix(after)]_vars

\* C22 witness: A, B and C have been added at three clock readings and the
\* ledger is [A, B, C]
C22_Witness ==
    /\ lastResult.op = "addIngredient"
    /\ lastResult.status = "ok"
    /\ Stored("s1") # NULL
    /\ Len(Stored("s1").components) = MaxLedger
    /\ IsLedgerPrefix(Stored("s1").components)
    /\ Stored("s1").components[1].addedAt < Stored("s1").components[2].addedAt
    /\ Stored("s1").components[2].addedAt < Stored("s1").components[3].addedAt

\* C23: readScaleWeight tries the three preprocessing variants in their list
\* order, each at most once, and, every external call returning or throwing,
\* it ends after at most three attempts either in Succeeded, returning a
\* recorded candidate, or in Exhausted, returning the sentinel.
C23_BoundedRetryLadder ==
    /\ [](/\ Len(ocr.log) <= Len(preprocessingOptions)
          /\ \A i \in DOMAIN ocr.log : ocr.log[i].variant = i
          /\ ocr.state = "Attempting" =>
                ocr.attempt = Len(ocr.log) + 1 /\ ocr.attempt \in DOMAIN preprocessingOptions
          /\ ocr.state = "Succeeded" =>
                /\ Len(ocr.log) \in 1..Len(preprocessingOptions)
                /\ \E i \in DOMAIN ocr.log : ocr.log[i].selected = ocr.result
          /\ ocr.state = "Exhausted" =>
                /\ Len(ocr.log) = Len(preprocessingOptions)
                /\ ocr.result = UnreadableReading)
    /\ ((ocr.state = "Attempting") ~> (ocr.state \in {"Succeeded", "Exhausted"}))

\* C23 witness: the third variant was tried after a failed and a skipped
\* attempt and yielded the candidate that is returned
C23_Witness ==
    /\ ocr.state = "Succeeded"
    /\ Len(ocr.log) = Len(preprocessingOptions)
    /\ ocr.log[1].kind = "caught"
    /\ ocr.log[2].kind = "skipped"
    /\ ocr.log[3].selected = ocr.result

\* the confidence of a candidate before the word-level average: the pass
\* confidence, plus 10 capped at 100 with a recognized unit token, then minus
\* 20 floored at 0 for a value below 0.1 or above 10000
AdjustedConfidence(passConfidence, candidate) ==
    LET boosted ==
            IF candidate.rawText[2] \in DOMAIN UNIT_MAPPINGS
            THEN (IF passConfidence + 10 < 100 THEN passConfidence + 10 ELSE 100)
            ELSE passConfidence
    IN  IF candidate.value < G(1) \div 10 \/ candidate.value > G(10000)
        THEN (IF boosted - 20 > 0 THEN boosted - 20 ELSE 0)
        ELSE boosted

\* Math.round of the mean of two whole confidences
RoundedMean(a, b) == (a + b + 1) \div 2

\* value, unit and range of every candidate of the pass
CandidatesWellFormed ==
    \A k \in DOMAIN lastResult.calc :
        LET c == lastResult.calc[k]
        IN  /\ c.value > 0
            /\ c.unit \in Units
            /\ c.rawText[2] \notin DOMAIN UNIT_MAPPINGS => c.unit = "g"
            /\ c.confidence \in 0..100

\* C24 as stated: every candidate of the extractor has value > 0, a unit in
\* {g, oz, lb} (g without a recognized unit token) and a confidence in
\* [0, 100] that is the pass confidence, plus 10 capped at 100 with a unit
\* token, minus 20 floored at 0 for a value below 0.1 or above 10000, then
\* averaged with the confidence of a word of the recognized word list that
\* contains the matched number, when there is such a word.
C24_AveragedWithAnyContainingWord ==
    lastResult.op = "extractWeightFromText" =>
        /\ CandidatesWellFormed
        /\ \A k \in DOMAIN lastResult.calc :
              LET c == lastResult.calc[k]
                  words == lastResult.arg.words
                  adjusted == AdjustedConfidence(lastResult.arg.confidence, c)
                  Containing == {i \in DOMAIN words :
                                    Includes(words[i].text, c.rawText[1])}
              IN  IF Containing = {} THEN c.confidence = adjusted
                  ELSE \E i \in Containing :
                          c.confidence = RoundedMean(adjusted, words[i].confidence)

\* C24 as amended: the same, the average being taken with the first word of
\* the list that contains the matched number and has a confidence above 0;
\* without such a word the confidence is not averaged.
C24_CandidateConfidence ==
    lastResult.op = "extractWeightFromText" =>
        /\ CandidatesWellFormed
        /\ \A k \in DOMAIN lastResult.calc :
              LET c == lastResult.calc[k]
                  words == lastResult.arg.words
                  adjusted == AdjustedConfidence(lastResult.arg.confidence, c)
                  Containing == {i \in DOMAIN words :
                                    /\ Includes(words[i].text, c.rawText[1])
                                    /\ words[i].confidence > 0}
              IN  IF Containing = {} THEN c.confidence = adjusted
                  ELSE LET first == CHOOSE i \in Containing :
                                        \A j \in Containing : i <= j
                       IN  c.confidence = RoundedMean(adjusted, words[first].confidence)

\* C24 witness: a pass of confidence 95 reading "20000 g", the number being
\* in a word of confidence 0 and in a word of confidence 33: the candidate
\* with the unit is capped at 100, lowered to 80 and averaged to 57
C24_Witness ==
    /\ lastResult.op = "extractWeightFromText"
    /\ lastResult.arg.confidence = 95
    /\ Len(lastResult.arg.words) = 2
    /\ Len(lastResult.calc) = 3
    /\ lastResult.calc[1].value = G(20000)
    /\ lastResult.calc[1].confidence = 57
    /\ lastResult.calc[3].confidence = 54

\* C25: for every non-empty candidate list, in whatever order, the selector
\* returns an element of the list, and no element of the list has a
\* confidence more than 10 points above the returned one; it returns null
\* only for the empty list.
C25_SelectedWithinTenOfHighest ==
    lastResult.op = "selectBestWeight" =>
        LET weights == lastResult.arg
            selected == lastResult.calc
        IN  /\ (selected = NULL) <=> (Len(weights) = 0)
            /\ Len(weights) > 0 =>
                  /\ \E i \in DOMAIN weights : weights[i] = selected
                  /\ \A i \in DOMAIN weights :
                        weights[i].confidence <= selected.confidence + 10

\* C25 witness: of three candidates the one returned is neither the first of
\* the list nor the most confident: a reasonable reading at 75 is preferred
\* to unreasonable ones at 80 and 81
C25_Witness ==
    /\ lastResult.op = "selectBestWeight"
    /\ Len(lastResult.arg) = MaxCandidates
    /\ lastResult.calc # NULL
    /\ lastResult.calc # lastResult.arg[1]
    /\ lastResult.calc.confidence = 75
    /\ \E i \in DOMAIN lastResult.arg : lastResult.arg[i].confidence = 81
    /\ \E i \in DOMAIN lastResult.arg : lastResult.arg[i].confidence = 80

\* the attempts of the history that selected a candidate
AttemptsSelecting == {i \in DOMAIN ocr.log : ocr.log[i].selected # NULL}

\* C26: the reading readScaleWeight returns is the selected candidate of
\* greatest confidence among the attempts made, the earliest one on equal
\* confidence; the running best is replaced only by a candidate of strictly
\* higher confidence, and an attempt that throws, is skipped or yields no
\* candidate leaves the recorded best as it was.
C26_ReturnsEarliestMostConfident ==
    /\ [](ocr.state = "Succeeded" =>
            \E i \in AttemptsSelecting :
                /\ ocr.result = ocr.log[i].selected
                /\ \A j \in AttemptsSelecting :
                      /\ ocr.log[j].selected.confidence <= ocr.log[i].selected.confidence
                      /\ ocr.log[j].selected.confidence = ocr.log[i].selected.confidence
                            => i <= j)
    /\ [][Len(ocr'.log) = Len(ocr.log) + 1 =>
            LET e == ocr'.log[Len(ocr'.log)]
            IN  /\ ocr'.bestConfidence >= ocr.bestConfidence
                /\ ocr'.bestWeight # ocr.bestWeight =>
                      /\ ocr'.bestWeight = e.selected
                      /\ e.selected.confidence > ocr.bestConfidence
                /\ (e.kind \in {"caught", "skipped"} \/ e.selected = NULL) =>
                      /\ ocr'.bestWeight = ocr.bestWeight
                      /\ ocr'.bestConfidence = ocr.bestConfidence]_vars

\* C26 witness: two attempts selected different candidates of confidence 72,
\* the third one failed, and the reading returned is the first candidate
C26_Witness ==
    /\ ocr.state = "Succeeded"
    /\ Len(ocr.log) = 3
    /\ ocr.log[1].selected # NULL /\ ocr.log[2].selected # NULL
    /\ ocr.log[1].selected # ocr.log[2].selected
    /\ ocr.log[1].selected.confidence = ocr.log[2].selected.confidence
    /\ ocr.log[3].kind = "caught"
    /\ ocr.result = ocr.log[1].selected

C28_DeletedSessionStaysDeleted ==
    lastResult.op = "deleteSession" => getSession(store, lastResult.sid) = NULL

\* C30: in the upload flow with an existing sessionId, the new total that
\* is compared with the session's totalWeight (in grams) is the detected
\* reading expressed in grams, whether the reading is in g, oz or lb, so the
\* 0 / 1 g / 5000 g rules are applied to a difference of two gram quantities.
C30_UploadComparesGrams ==
    (/\ lastResult.op = "upload"
     /\ lastResult.calc # NULL
     /\ getSession(store, lastResult.arg.sessionId) # NULL
     /\ lastResult.arg.detectedWeight.unit \in {"g", "oz", "lb"}) =>
        LET detectedWeight == lastResult.arg.detectedWeight
            session == getSession(store, lastResult.arg.sessionId)
        IN  lastResult.calc =
                WeightDifferenceResult(session,
                    convertToGrams(detectedWeight.value, detectedWeight.unit))

\* C29 as stated: after a reading T was validated with difference d and d was
\* committed with addIngredient, nothing else having written, the session's
\* totalWeight is T, its previousWeight is the total before, and validating T
\* again is rejected with 'must be greater than previous weight'.
C29_LedgerEqualsScale ==
    lastResult.op = "addIngredient" =>
        LET session == Stored(lastResult.sid)
            again == NumberWeightDifferenceResult(session, lastResult.arg)
        IN  /\ session.totalWeight = lastResult.arg
            /\ session.previousWeight = lastResult.calc.previousWeight
            /\ ~again.isValid
            /\ again.error = ERR_NOT_GREATER

\* C29, amended: after a reading T was validated with difference d and d was
\* committed, previousWeight is the total before, totalWeight is within
\* 2^-38 g of T, and validating T again is rejected: with 'increase too
\* small' when totalWeight was rounded to just below T, and with 'must be
\* greater than previous weight' otherwise.
C29_LedgerEqualsScaleToRounding ==
    lastResult.op = "addIngredient" =>
        LET session == Stored(lastResult.sid)
            again == NumberWeightDifferenceResult(session, lastResult.arg)
            off == ExactDifference(lastResult.arg, session.totalWeight)
        IN  /\ Len(off.mag) <= FractionBits - 38
            /\ session.previousWeight = lastResult.calc.previousWeight
            /\ ~again.isValid
            /\ again.error = IF NumberLess(session.totalWeight, lastResult.arg)
                             THEN ERR_TOO_SMALL ELSE ERR_NOT_GREATER

\* a second ingredient was committed and the new total is not the reading
C29_Witness ==
    /\ lastResult.op = "addIngredient"
    /\ Len(Stored(lastResult.sid).components) > 1
    /\ Stored(lastResult.sid).totalWeight # lastResult.arg
    /\ NumberLess(Stored(lastResult.sid).totalWeight, lastResult.arg)

=============================================================================
